---- MODULE Spec2Model ----
(***************************************************************************)
(* A model of the deterministic root-cause inference core of the AIOps     *)
(* demo: the cascade simulator (logic.py), the safety rule engine and the  *)
(* hybrid judgment (safety_rules.py), the redundancy-depth decision and    *)
(* analyze of LogicalRCA (inference_engine.py), the retrying calls and the *)
(* AIClient singleton (ai_helpers.py, app.py), the scenario alarm          *)
(* generators (alarm_generator.py, app.py) and the CausalInferenceEngine   *)
(* (logic.py).                                                             *)
(*                                                                         *)
(* Python strings are TLA+ strings; `in`, lower(), upper() and " ".join    *)
(* are computed character by character.  Non-ASCII keywords are written    *)
(* one code point at a time as <U+XXXX>.                                   *)
(***************************************************************************)
EXTENDS Naturals, Integers, Sequences, FiniteSets, TLC

VARIABLES
    \* simulate_cascade_failure (logic.py)
    topology,          \* the dict of NetworkNode, in iteration order
    root_cause_id,     \* the argument root_cause_id
    generated_alarms,  \* the list being built / returned
    queue,             \* the BFS queue
    processed,         \* the set of ids already enqueued
    pc,                \* position in simulate_cascade_failure
    \* SafetyRuleEngine / HybridJudgment (safety_rules.py)
    alarms,            \* the argument alarms: a list of messages
    device_metadata,   \* the argument device_metadata: a dict
    judgment,          \* what the call under test returned
    baseline,          \* what evaluate returned for the same alarms, no redundancy metadata
    called,            \* which calls have been made so far
    ha_args,           \* the arguments of a direct check_ha_redundancy call
    ai_judgment_func,  \* the behaviour of the callable handed to decide
    ai_calls,          \* how often the AI callable / the model was invoked
    \* LogicalRCA (inference_engine.py)
    rca,               \* the engine, its environment and the last call's result
    \* ai_helpers.py, app.py
    retry,             \* a call of one of the retrying functions, in progress or ended
    client,            \* the AIClient class and the threads constructing AIClient()
    \* alarm_generator.py, app.py
    scenario           \* the scenario label and what the generators made of it

cascadeVars == <<topology, root_cause_id, generated_alarms, queue, processed, pc>>
safetyVars == <<alarms, device_metadata, judgment, baseline, called, ha_args>>
aiVars == <<ai_judgment_func, ai_calls, rca>>
helperVars == <<retry, client, scenario>>
vars == <<cascadeVars, safetyVars, aiVars, helperVars>>

\* Python's None where a string (an id, a group name) is expected.
None == "None"

(***************************************************************************)
(* Bounds of the model.                                                    *)
(***************************************************************************)
\* Number of nodes of the largest topology.
MaxNodes == 3
\* Length of the longest alarm list handed to the rule engine.
MaxAlarms == 2
\* Largest HA group size handed to check_ha_redundancy.
MaxMembers == 2
\* Largest retry budget (max_retries, retries) handed to a retrying function.
MaxRetries == 4
\* Number of threads that construct AIClient() concurrently.
MaxThreads == 2

(***************************************************************************)
(* logic.py: NetworkNode, Alarm, simulate_cascade_failure                  *)
(***************************************************************************)
Ids == <<"D1", "D2", "D3", "D4", "D5", "D6">>
DeviceIds == {Ids[i] : i \in 1..MaxNodes}

NetworkNode(id, parent_id) == [id |-> id, parent_id |-> parent_id]

Alarm(device_id, message, severity) ==
    [device_id |-> device_id, message |-> message, severity |-> severity]

\* Every topology of 1..MaxNodes nodes D1..Dn (the dict's iteration order); a
\* parent_id is None or any id, so it may dangle, be shared, or close a cycle.
Topologies ==
    UNION {{[i \in 1..n |-> NetworkNode(Ids[i], p[i])] :
               p \in [1..n -> DeviceIds \cup {None}]} : n \in 1..MaxNodes}

\* [n for n in topology.values() if n.parent_id == current_parent_id]
children(topo, current_parent_id) ==
    SelectSeq(topo, LAMBDA n : n.parent_id = current_parent_id)

NotProcessedAlways(child, done) == TRUE

\* if child.id not in processed
NotProcessed(child, done) == child.id \notin done

DequeueKeep(q) == q

\* queue.pop(0): what is left of the queue
Dequeue(q) == Tail(q)

\* the for loop over the children of one dequeued node
RECURSIVE VisitChildren(_, _)
VisitChildren(cs, st) ==
    IF cs = <<>> THEN st
    ELSE LET child == Head(cs) IN
         VisitChildren(Tail(cs),
            IF NotProcessed(child, st.processed)
            THEN [generated_alarms |->
                      Append(st.generated_alarms,
                             Alarm(child.id, "Unreachable", "WARNING")),
                  queue |-> Append(st.queue, child.id),
                  processed |-> st.processed \cup {child.id}]
            ELSE st)

SafetyIdle ==
    /\ alarms = <<>>
    /\ device_metadata = <<>>
    /\ judgment = [is_none |-> TRUE]
    /\ baseline = [is_none |-> TRUE]
    /\ called = {}
    /\ ha_args = <<>>

AiIdle ==
    /\ ai_judgment_func = [kind |-> "None"]
    /\ ai_calls = 0
    /\ rca = <<>>

\* No retrying call and no AIClient() construction is under way.
HelperIdle ==
    /\ retry = <<>>
    /\ client = <<>>
    /\ scenario = <<>>

CascadeIdle ==
    /\ topology = <<>>
    /\ root_cause_id = None
    /\ generated_alarms = <<>>
    /\ queue = <<>>
    /\ processed = {}
    /\ pc = "idle"

InitCascade ==
    /\ topology \in Topologies
    /\ root_cause_id \in DeviceIds
    /\ generated_alarms = <<>>
    /\ queue = <<>>
    /\ processed = {}
    /\ pc = "start"
    /\ SafetyIdle
    /\ AiIdle
    /\ HelperIdle

\* lines 109-113: the root's alarm, the queue and the processed set
CascadeBegin ==
    /\ pc = "start"
    /\ generated_alarms' = <<Alarm(root_cause_id, "Interface Down", "CRITICAL")>>
    /\ queue' = <<root_cause_id>>
    /\ processed' = {root_cause_id}
    /\ pc' = "loop"
    /\ UNCHANGED <<topology, root_cause_id, safetyVars, aiVars, helperVars>>

\* lines 115-122: one iteration of `while queue`
CascadeStep ==
    /\ pc = "loop"
    /\ queue # <<>>
    /\ LET current_parent_id == Head(queue)
           st == VisitChildren(children(topology, current_parent_id),
                               [generated_alarms |-> generated_alarms,
                                queue |-> Dequeue(queue),
                                processed |-> processed])
       IN /\ generated_alarms' = st.generated_alarms
          /\ queue' = st.queue
          /\ processed' = st.processed
    /\ UNCHANGED <<topology, root_cause_id, pc, safetyVars, aiVars, helperVars>>

\* line 124: the queue is empty, return generated_alarms
CascadeReturn ==
    /\ pc = "loop"
    /\ queue = <<>>
    /\ pc' = "done"
    /\ UNCHANGED <<topology, root_cause_id, generated_alarms, queue, processed,
                   safetyVars, aiVars, helperVars>>

NextCascade == CascadeBegin \/ CascadeStep \/ CascadeReturn

SpecCascade == InitCascade /\ [][NextCascade]_vars

\* The loop is sequential code: once called, the function keeps running.
SpecCascadeFair == SpecCascade /\ WF_vars(NextCascade)

(***************************************************************************)
(* Claims about simulate_cascade_failure                                   *)
(***************************************************************************)
\* The parent of node id, None when id is not in the topology.
ParentOf(id) ==
    IF \E i \in 1..Len(topology) : topology[i].id = id
    THEN topology[CHOOSE i \in 1..Len(topology) : topology[i].id = id].parent_id
    ELSE None

RECURSIVE AncestorAt(_, _)
AncestorAt(id, k) == IF k = 0 THEN id ELSE ParentOf(AncestorAt(id, k - 1))

\* The nodes other than the root from which a chain of parent_id leads to the root.
Descendants ==
    {topology[i].id : i \in 1..Len(topology)}
        \cap {id \in DeviceIds : /\ id # root_cause_id
                                 /\ \E k \in 1..Len(topology) :
                                        AncestorAt(id, k) = root_cause_id}

AlarmsFor(id) ==
    {i \in 1..Len(generated_alarms) : generated_alarms[i].device_id = id}

\* C1: the output never holds a device id twice, and on return it is exactly
\* one CRITICAL alarm for the root plus one WARNING "Unreachable" alarm for
\* each node reachable from the root through parent_id edges, nothing else.
C1_CascadeExact ==
    /\ \A id \in DeviceIds : Cardinality(AlarmsFor(id)) <= 1
    /\ pc = "done" =>
          /\ Cardinality(AlarmsFor(root_cause_id)) = 1
          /\ \A i \in 1..Len(generated_alarms) :
                IF generated_alarms[i].device_id = root_cause_id
                THEN generated_alarms[i].severity = "CRITICAL"
                ELSE /\ generated_alarms[i].severity = "WARNING"
                     /\ generated_alarms[i].message = "Unreachable"
          /\ {generated_alarms[i].device_id : i \in 1..Len(generated_alarms)}
                = {root_cause_id} \cup Descendants

\* A finished cascade over a topology where two nodes name the root as their
\* parent and the root's own parent_id closes a cycle.
C1_Witness ==
    /\ pc = "done"
    /\ Cardinality({i \in 1..Len(topology) :
                       topology[i].parent_id = root_cause_id}) >= 2
    /\ ParentOf(root_cause_id) \in Descendants
    /\ Len(generated_alarms) >= 3

\* C2: simulate_cascade_failure terminates for every topology, cyclic or not.
C2_CascadeTerminates == <>(pc = "done")

\* A cascade that returned although the parent_id references form a cycle
\* among the descendants of the root.
C2_Witness ==
    /\ pc = "done"
    /\ \E id \in Descendants :
          /\ ParentOf(id) \in Descendants
          /\ \E k \in 1..Len(topology) : AncestorAt(id, k) = id

(***************************************************************************)
(* Python strings                                                          *)
(***************************************************************************)
ToLower ==
    ("A" :> "a") @@ ("B" :> "b") @@ ("C" :> "c") @@ ("D" :> "d") @@ ("E" :> "e") @@
    ("F" :> "f") @@ ("G" :> "g") @@ ("H" :> "h") @@ ("I" :> "i") @@ ("J" :> "j") @@
    ("K" :> "k") @@ ("L" :> "l") @@ ("M" :> "m") @@ ("N" :> "n") @@ ("O" :> "o") @@
    ("P" :> "p") @@ ("Q" :> "q") @@ ("R" :> "r") @@ ("S" :> "s") @@ ("T" :> "t") @@
    ("U" :> "u") @@ ("V" :> "v") @@ ("W" :> "w") @@ ("X" :> "x") @@ ("Y" :> "y") @@
    ("Z" :> "z")

ToUpper ==
    ("a" :> "A") @@ ("b" :> "B") @@ ("c" :> "C") @@ ("d" :> "D") @@ ("e" :> "E") @@
    ("f" :> "F") @@ ("g" :> "G") @@ ("h" :> "H") @@ ("i" :> "I") @@ ("j" :> "J") @@
    ("k" :> "K") @@ ("l" :> "L") @@ ("m" :> "M") @@ ("n" :> "N") @@ ("o" :> "O") @@
    ("p" :> "P") @@ ("q" :> "Q") @@ ("r" :> "R") @@ ("s" :> "S") @@ ("t" :> "T") @@
    ("u" :> "U") @@ ("v" :> "V") @@ ("w" :> "W") @@ ("x" :> "X") @@ ("y" :> "Y") @@
    ("z" :> "Z")

\* str.lower()
RECURSIVE lower(_)
lower(s) ==
    IF Len(s) = 0 THEN ""
    ELSE LET c == SubSeq(s, 1, 1) IN
         (IF c \in DOMAIN ToLower THEN ToLower[c] ELSE c) \o lower(SubSeq(s, 2, Len(s)))

\* str.upper()
RECURSIVE upper(_)
upper(s) ==
    IF Len(s) = 0 THEN ""
    ELSE LET c == SubSeq(s, 1, 1) IN
         (IF c \in DOMAIN ToUpper THEN ToUpper[c] ELSE c) \o upper(SubSeq(s, 2, Len(s)))

\* sep.join(parts)
RECURSIVE join(_, _)
join(sep, parts) ==
    IF parts = <<>> THEN ""
    ELSE IF Len(parts) = 1 THEN parts[1]
    ELSE parts[1] \o sep \o join(sep, Tail(parts))

\* `kw in s` for strings
Contains(kw, s) ==
    \E i \in 1..(Len(s) - Len(kw) + 1) : SubSeq(s, i, i + Len(kw) - 1) = kw

\* any(kw in s for kw in kws)
ContainsAny(kws, s) == \E k \in 1..Len(kws) : Contains(kws[k], s)

\* dict.get(key, default)
Get(d, key, default) == IF key \in DOMAIN d THEN d[key] ELSE default

(***************************************************************************)
(* safety_rules.py: SafetyJudgment and the five rules                      *)
(***************************************************************************)
SafetyJudgment(status, impact_type, reason, is_definitive) ==
    [status |-> status, impact_type |-> impact_type, reason |-> reason,
     is_definitive |-> is_definitive]

\* Python's None where a SafetyJudgment (or a result dict) is expected.
NoJudgment == [is_none |-> TRUE]

OUTAGE_KEYWORDS ==
    <<"device down",
      "dual loss",
      "dual psu loss",
      "both psu",
      "thermal shutdown",
      "system shutdown",
      "complete failure",
      "total loss",
      "<U+4E21><U+7CFB>",
      "<U+5168><U+505C><U+6B62>",
      "<U+30C7><U+30D0><U+30A4><U+30B9><U+30C0><U+30A6><U+30F3>">>

PSU_FAIL_KEYWORDS ==
    <<"power supply",
      "psu fail",
      "psu 1 fail",
      "<U+96FB><U+6E90><U+969C><U+5BB3>">>

FAN_FAIL_KEYWORDS ==
    <<"fan fail",
      "fan fault",
      "<U+30D5><U+30A1><U+30F3><U+6545><U+969C>">>

THERMAL_KEYWORDS ==
    <<"high temperature",
      "overheat",
      "thermal",
      "<U+9AD8><U+6E29>">>

MEM_HIGH_KEYWORDS ==
    <<"memory high",
      "memory leak",
      "<U+30E1><U+30E2><U+30EA><U+30EA><U+30FC><U+30AF>",
      "<U+30E1><U+30E2><U+30EA><U+9AD8>">>

OOM_KEYWORDS ==
    <<"out of memory",
      "oom",
      "kernel panic",
      "process killed">>

JoinedAsIs(alarm_msgs) == join(" ", alarm_msgs)

\* joined = " ".join(alarms).lower()
Joined(alarm_msgs) == lower(join(" ", alarm_msgs))

\* Rule 1
check_outage(alarm_msgs) ==
    LET joined == Joined(alarm_msgs)
        hits == {k \in 1..Len(OUTAGE_KEYWORDS) : Contains(OUTAGE_KEYWORDS[k], joined)}
    IN IF hits # {}
       THEN LET keyword == OUTAGE_KEYWORDS[CHOOSE k \in hits : \A j \in hits : k <= j]
            IN SafetyJudgment("CRITICAL", "OUTAGE",
                   "Service outage detected: '" \o keyword \o "' (safety rule)", TRUE)
       ELSE NoJudgment

PsuRedundantInverted(psu_count) == psu_count < 2

PsuRedundantAboveTwo(psu_count) == psu_count > 2

\* if psu_count >= 2
PsuRedundant(psu_count) == psu_count >= 2

\* Rule 2
check_psu_redundancy(alarm_msgs, psu_count) ==
    LET joined == Joined(alarm_msgs)
        psu_fail == ContainsAny(PSU_FAIL_KEYWORDS, joined)
    IN IF ~psu_fail THEN NoJudgment
       ELSE IF PsuRedundant(psu_count)
       THEN SafetyJudgment("WARNING", "REDUNDANCY_LOST",
                "Single PSU failure with redundancy (psu_count="
                    \o ToString(psu_count) \o ") (safety rule)", TRUE)
       ELSE SafetyJudgment("CRITICAL", "OUTAGE",
                "Single PSU failure without redundancy (psu_count="
                    \o ToString(psu_count) \o ") (safety rule)", TRUE)

\* Rule 3
check_ha_redundancy(alarm_msgs, redundancy_group, total_members, failed_members) ==
    IF redundancy_group = None \/ redundancy_group = "" THEN NoJudgment
    ELSE IF failed_members = total_members
    THEN SafetyJudgment("CRITICAL", "OUTAGE",
             "HA group total failure: " \o ToString(failed_members) \o "/"
                 \o ToString(total_members) \o " (safety rule)", TRUE)
    ELSE IF failed_members > 0
    THEN SafetyJudgment("WARNING", "REDUNDANCY_LOST",
             "HA partial failure: " \o ToString(failed_members) \o "/"
                 \o ToString(total_members) \o " (safety rule)", TRUE)
    ELSE NoJudgment

check_thermal_risk_FanOnly(alarm_msgs) ==
    IF ContainsAny(FAN_FAIL_KEYWORDS, Joined(alarm_msgs))
    THEN SafetyJudgment("WARNING", "DEGRADED",
             "Fan failure detected, thermal escalation risk (safety rule)", TRUE)
    ELSE NoJudgment

\* Rule 4
check_thermal_risk(alarm_msgs) ==
    LET joined == Joined(alarm_msgs)
        fan_fail == ContainsAny(FAN_FAIL_KEYWORDS, joined)
        thermal_symptom == ContainsAny(THERMAL_KEYWORDS, joined)
    IN IF fan_fail /\ thermal_symptom
       THEN SafetyJudgment("CRITICAL", "OUTAGE",
                "Fan failure with thermal escalation (safety rule)", TRUE)
       ELSE IF fan_fail
       THEN SafetyJudgment("WARNING", "DEGRADED",
                "Fan failure detected, thermal escalation risk (safety rule)", TRUE)
       ELSE NoJudgment

\* Rule 5
check_memory_risk(alarm_msgs) ==
    LET joined == Joined(alarm_msgs)
        mem_high == ContainsAny(MEM_HIGH_KEYWORDS, joined)
        oom == ContainsAny(OOM_KEYWORDS, joined)
    IN IF mem_high /\ oom
       THEN SafetyJudgment("CRITICAL", "OUTAGE",
                "Memory exhaustion causing system instability (safety rule)", TRUE)
       ELSE IF mem_high
       THEN SafetyJudgment("WARNING", "DEGRADED",
                "Memory high, risk of OOM (safety rule)", TRUE)
       ELSE NoJudgment

RuleResultsThermalFirst(alarm_msgs, metadata) ==
    <<check_outage(alarm_msgs),
      check_psu_redundancy(alarm_msgs, Get(metadata, "psu_count", 1)),
      check_thermal_risk(alarm_msgs),
      check_ha_redundancy(alarm_msgs, Get(metadata, "redundancy_group", None),
          Get(metadata, "total_members", 1), Get(metadata, "failed_members", 0)),
      check_memory_risk(alarm_msgs)>>

\* evaluate, lines 300-329: what each rule answers, in the order they are asked
RuleResults(alarm_msgs, metadata) ==
    <<check_outage(alarm_msgs),
      check_psu_redundancy(alarm_msgs, Get(metadata, "psu_count", 1)),
      check_ha_redundancy(alarm_msgs, Get(metadata, "redundancy_group", None),
          Get(metadata, "total_members", 1), Get(metadata, "failed_members", 0)),
      check_thermal_risk(alarm_msgs),
      check_memory_risk(alarm_msgs)>>

\* `if judgment: return judgment` down the list; None when no rule answers
RECURSIVE FirstJudgment(_)
FirstJudgment(results) ==
    IF results = <<>> THEN NoJudgment
    ELSE IF Head(results) # NoJudgment THEN Head(results)
    ELSE FirstJudgment(Tail(results))

\* SafetyRuleEngine.evaluate
evaluate(alarm_msgs, metadata) ==
    IF alarm_msgs = <<>> THEN NoJudgment
    ELSE FirstJudgment(RuleResults(alarm_msgs, metadata))

(***************************************************************************)
(* Inputs of the rule engine                                               *)
(***************************************************************************)
\* Alarm messages: those the alarm generator emits, plus symptoms named by
\* the rules' keyword lists.
Messages ==
    {"Power Supply 1 Failed", "Power Supply: Dual Loss",
     "Fan Fail", "High Temperature", "Thermal Shutdown", "Memory High",
     "Out of memory", "Heartbeat Loss"}

AlarmLists == UNION {[1..n -> Messages] : n \in 0..MaxAlarms}

\* A dict holding `key` with one of `values`, or not holding it.
Optional(key, values) == {<<>>} \cup {key :> v : v \in values}

Metadatas ==
    {a @@ b @@ c @@ d :
        a \in Optional("psu_count", {1, 2, 3}),
        b \in Optional("redundancy_group", {"HA-FW"}),
        c \in Optional("total_members", {2}),
        d \in Optional("failed_members", {1, 2})}

\* The dict without `key`.
Without(d, key) == [k \in DOMAIN d \ {key} |-> d[k]]

InitSafety ==
    /\ alarms \in AlarmLists
    /\ device_metadata \in Metadatas
    /\ judgment = NoJudgment
    /\ baseline = NoJudgment
    /\ called = {}
    /\ ha_args = <<>>
    /\ CascadeIdle
    /\ HelperIdle
    /\ AiIdle

\* SafetyRuleEngine.evaluate(alarms, device_metadata)
Evaluate ==
    /\ "evaluate" \notin called
    /\ judgment' = evaluate(alarms, device_metadata)
    /\ called' = called \cup {"evaluate"}
    /\ UNCHANGED <<alarms, device_metadata, baseline, ha_args, cascadeVars, aiVars, helperVars>>

\* The same alarms evaluated for a device without redundancy metadata ({}),
\* and for the device's metadata with only psu_count left out.
EvaluateBaseline ==
    /\ "evaluate" \in called
    /\ "baseline" \notin called
    /\ baseline' = [bare |-> evaluate(alarms, <<>>),
                    no_psu |-> evaluate(alarms, Without(device_metadata, "psu_count"))]
    /\ called' = called \cup {"baseline"}
    /\ UNCHANGED <<alarms, device_metadata, judgment, ha_args, cascadeVars, aiVars, helperVars>>

NextSafety == Evaluate \/ EvaluateBaseline

SpecSafety == InitSafety /\ [][NextSafety]_vars

HaArgs ==
    [redundancy_group : {None, "HA-FW"},
     total_members : 0..MaxMembers,
     failed_members : 0..(MaxMembers + 1)]

InitHA ==
    /\ alarms \in {al \in AlarmLists : Len(al) <= 1}
    /\ ha_args \in HaArgs
    /\ device_metadata = <<>>
    /\ judgment = NoJudgment
    /\ baseline = NoJudgment
    /\ called = {}
    /\ CascadeIdle
    /\ HelperIdle
    /\ AiIdle

\* SafetyRuleEngine.check_ha_redundancy(alarms, redundancy_group, total, failed)
CheckHaRedundancy ==
    /\ "check_ha_redundancy" \notin called
    /\ judgment' = check_ha_redundancy(alarms, ha_args.redundancy_group,
                                       ha_args.total_members, ha_args.failed_members)
    /\ called' = called \cup {"check_ha_redundancy"}
    /\ UNCHANGED <<alarms, device_metadata, baseline, ha_args, cascadeVars, aiVars, helperVars>>

NextHA == CheckHaRedundancy

SpecHA == InitHA /\ [][NextHA]_vars

(***************************************************************************)
(* Claims about SafetyRuleEngine                                           *)
(***************************************************************************)
\* The alarm set holds one of the keywords: the rules read the messages
\* joined by " " and lower-cased, so that is the text searched.
AlarmText == lower(join(" ", alarms))

AlarmSetHas(kws) == ContainsAny(kws, AlarmText)

\* One message of the alarm set holds one of the keywords, in any case.
SomeMessageHas(kws) == \E i \in 1..Len(alarms) : ContainsAny(kws, lower(alarms[i]))

PsuCount == Get(device_metadata, "psu_count", 1)

\* The HA rule answers for the metadata given.
HaRuleMatches ==
    /\ Get(device_metadata, "redundancy_group", None) # None
    /\ \/ Get(device_metadata, "failed_members", 0)
             = Get(device_metadata, "total_members", 1)
       \/ Get(device_metadata, "failed_members", 0) > 0

Is(j, status, impact_type) ==
    /\ j # NoJudgment
    /\ j.status = status
    /\ j.impact_type = impact_type

\* NORMAL or no judgment < WARNING < CRITICAL
Severity(j) ==
    IF j = NoJudgment THEN 0
    ELSE IF j.status = "CRITICAL" THEN 2
    ELSE IF j.status = "WARNING" THEN 1
    ELSE 0

\* C3: a non-empty alarm set in which some message holds an outage keyword
\* (in any case) is judged CRITICAL/OUTAGE, definitive, whatever the metadata
\* and the other keywords.
C3_OutageAlwaysCritical ==
    ("evaluate" \in called /\ SomeMessageHas(OUTAGE_KEYWORDS)) =>
        /\ Is(judgment, "CRITICAL", "OUTAGE")
        /\ judgment.is_definitive

\* An outage message written with capitals, next to a fan failure, on a
\* device with two PSUs in a partially failed HA group.
C3_Witness ==
    /\ "evaluate" \in called
    /\ \E i \in 1..Len(alarms) : alarms[i] = "Thermal Shutdown"
    /\ AlarmSetHas(FAN_FAIL_KEYWORDS)
    /\ "psu_count" \in DOMAIN device_metadata /\ device_metadata["psu_count"] = 2
    /\ HaRuleMatches
    /\ Is(judgment, "CRITICAL", "OUTAGE")

\* C4: a single-PSU-failure keyword and no outage keyword: WARNING /
\* REDUNDANCY_LOST when psu_count >= 2, CRITICAL/OUTAGE when psu_count < 2
\* (absent counts as 1), whatever the HA metadata and the other keywords.
C4_PsuByCount ==
    LET text == AlarmText IN
    ("evaluate" \in called /\ ContainsAny(PSU_FAIL_KEYWORDS, text)
        /\ ~ContainsAny(OUTAGE_KEYWORDS, text)) =>
        IF PsuCount >= 2
        THEN Is(judgment, "WARNING", "REDUNDANCY_LOST")
        ELSE Is(judgment, "CRITICAL", "OUTAGE")

\* A single PSU failure with a fan failure on a device with exactly two PSUs
\* whose HA group has failed completely: still WARNING.
C4_Witness ==
    /\ "evaluate" \in called
    /\ AlarmSetHas(PSU_FAIL_KEYWORDS) /\ ~AlarmSetHas(OUTAGE_KEYWORDS)
    /\ AlarmSetHas(FAN_FAIL_KEYWORDS)
    /\ "psu_count" \in DOMAIN device_metadata /\ device_metadata["psu_count"] = 2
    /\ HaRuleMatches
    /\ Get(device_metadata, "failed_members", 0) = Get(device_metadata, "total_members", 1)
    /\ Is(judgment, "WARNING", "REDUNDANCY_LOST")

\* C5 as stated: for every alarm set and every metadata, fan failure with a
\* thermal keyword is CRITICAL and fan failure without one is WARNING.
C5_FanThermalAnyMetadata ==
    LET text == AlarmText IN
    ("evaluate" \in called /\ ContainsAny(FAN_FAIL_KEYWORDS, text)) =>
        IF ContainsAny(THERMAL_KEYWORDS, text)
        THEN judgment # NoJudgment /\ judgment.status = "CRITICAL"
        ELSE judgment # NoJudgment /\ judgment.status = "WARNING"

\* C5 amended: when no rule of higher priority answers (no outage keyword, no
\* PSU-failure keyword, HA rule silent), fan failure with a thermal keyword
\* is CRITICAL/OUTAGE and fan failure without one is WARNING/DEGRADED.
C5_FanThermalWhenReached ==
    LET text == AlarmText IN
    ("evaluate" \in called /\ ~HaRuleMatches
        /\ ContainsAny(FAN_FAIL_KEYWORDS, text)
        /\ ~ContainsAny(OUTAGE_KEYWORDS, text)
        /\ ~ContainsAny(PSU_FAIL_KEYWORDS, text)) =>
        IF ContainsAny(THERMAL_KEYWORDS, text)
        THEN Is(judgment, "CRITICAL", "OUTAGE")
        ELSE Is(judgment, "WARNING", "DEGRADED")

\* Fan failure with high temperature, reaching the thermal rule on a device
\* that has redundancy metadata which does not answer.
C5_Witness ==
    /\ "evaluate" \in called
    /\ AlarmSetHas(FAN_FAIL_KEYWORDS) /\ AlarmSetHas(THERMAL_KEYWORDS)
    /\ ~AlarmSetHas(OUTAGE_KEYWORDS) /\ ~AlarmSetHas(PSU_FAIL_KEYWORDS)
    /\ ~HaRuleMatches
    /\ DOMAIN device_metadata # {}
    /\ Is(judgment, "CRITICAL", "OUTAGE")

\* The answers of the five rules in the order outage, PSU, HA, thermal, memory.
C6_Answers ==
    <<check_outage(alarms),
      check_psu_redundancy(alarms, PsuCount),
      check_ha_redundancy(alarms, Get(device_metadata, "redundancy_group", None),
          Get(device_metadata, "total_members", 1),
          Get(device_metadata, "failed_members", 0)),
      check_thermal_risk(alarms),
      check_memory_risk(alarms)>>

\* C6: evaluate returns the judgment of the first rule, in the order outage,
\* PSU, HA, thermal, memory, that answers; it returns none exactly when the
\* alarm list is empty or no rule answers.
C6_FirstMatchWins ==
    "evaluate" \in called =>
        LET answers == C6_Answers IN
        IF alarms = <<>> \/ \A i \in 1..5 : answers[i] = NoJudgment
        THEN judgment = NoJudgment
        ELSE \E i \in 1..5 :
                /\ answers[i] # NoJudgment
                /\ \A j \in 1..(i - 1) : answers[j] = NoJudgment
                /\ judgment = answers[i]

\* The HA, thermal and memory rules all answer, differently, and the HA
\* rule's judgment is the one returned.
C6_Witness ==
    /\ "evaluate" \in called
    /\ C6_Answers[1] = NoJudgment /\ C6_Answers[2] = NoJudgment
    /\ C6_Answers[3] # NoJudgment
    /\ C6_Answers[4] # NoJudgment
    /\ C6_Answers[4].status # C6_Answers[3].status
    /\ judgment = C6_Answers[3]

\* C7 as stated: check_ha_redundancy answers CRITICAL/OUTAGE exactly when a
\* group is set and failed = total, WARNING/REDUNDANCY_LOST exactly when a
\* group is set and 0 < failed < total, and nothing in every other case.
C7_HaExact ==
    "check_ha_redundancy" \in called =>
        LET set == ha_args.redundancy_group # None
            f == ha_args.failed_members
            t == ha_args.total_members
        IN IF set /\ f = t THEN Is(judgment, "CRITICAL", "OUTAGE")
           ELSE IF set /\ 0 < f /\ f < t THEN Is(judgment, "WARNING", "REDUNDANCY_LOST")
           ELSE judgment = NoJudgment

\* C8 as stated: with redundancy metadata (psu_count >= 2, or a redundancy
\* group with its member counts) the status is never more severe than for the
\* same alarms with no redundancy metadata.
C8_RedundancyOnlyDowngrades ==
    ({"evaluate", "baseline"} \subseteq called
        /\ \/ ("psu_count" \in DOMAIN device_metadata /\ PsuCount >= 2)
           \/ {"redundancy_group", "total_members", "failed_members"}
                  \subseteq DOMAIN device_metadata) =>
        Severity(judgment) <= Severity(baseline.bare)

\* C8 amended: PSU redundancy only downgrades: with psu_count >= 2 the status
\* is never more severe than for the same alarms and the same metadata
\* without psu_count.
C8_PsuOnlyDowngrades ==
    ({"evaluate", "baseline"} \subseteq called
        /\ "psu_count" \in DOMAIN device_metadata /\ PsuCount >= 2) =>
        Severity(judgment) <= Severity(baseline.no_psu)

\* A device whose two PSUs turn the CRITICAL of a single PSU failure into a
\* WARNING.
C8_Witness ==
    /\ {"evaluate", "baseline"} \subseteq called
    /\ "psu_count" \in DOMAIN device_metadata /\ PsuCount >= 2
    /\ AlarmSetHas(PSU_FAIL_KEYWORDS)
    /\ Severity(judgment) = 1
    /\ Severity(baseline.no_psu) = 2

(***************************************************************************)
(* Python values of more than one type (AI results, JSON, inventory)       *)
(***************************************************************************)
PyStr(s) == [type |-> "str", value |-> s]
PyInt(n) == [type |-> "int", value |-> n]
PyDict(d) == [type |-> "dict", value |-> d]
PyNone == [type |-> "NoneType"]

\* An exception raised instead of a value returned.
Raised(message) == [type |-> "raised", message |-> message]

IsRaised(v) == "type" \in DOMAIN v /\ v.type = "raised"

(***************************************************************************)
(* safety_rules.py: HybridJudgment.decide                                  *)
(***************************************************************************)
\* The names of the Enum members: HealthStatus[...] and ImpactType[...]
HealthStatusNames == {"NORMAL", "WARNING", "CRITICAL"}
ImpactTypeNames == {"NONE", "DEGRADED", "REDUNDANCY_LOST", "OUTAGE", "UNKNOWN"}

\* value.upper() looked up in an Enum: AttributeError when value is no
\* string, KeyError when the upper-cased string is no member name.
EnumLookup(names, v) ==
    IF v.type # "str" THEN Raised("AttributeError")
    ELSE IF upper(v.value) \in names THEN PyStr(upper(v.value))
    ELSE Raised("KeyError")

\* lines 453-461: call the AI function and convert what it returns; the
\* exception, if any step raises one.
AiJudgment(func) ==
    IF func.kind = "raises" THEN Raised(func.error)
    ELSE LET ai_result == func.value IN
         IF ai_result.type # "dict" THEN Raised("AttributeError")
         ELSE LET status == EnumLookup(HealthStatusNames,
                                Get(ai_result.value, "status", PyStr("WARNING")))
                  impact_type == EnumLookup(ImpactTypeNames,
                                Get(ai_result.value, "impact_type", PyStr("UNKNOWN")))
              IN IF IsRaised(status) THEN status
                 ELSE IF IsRaised(impact_type) THEN impact_type
                 ELSE SafetyJudgment(status.value, impact_type.value,
                          Get(ai_result.value, "reason", PyStr("AI judgment")).value,
                          FALSE)

\* lines 466-471
DefaultJudgment ==
    SafetyJudgment("WARNING", "UNKNOWN",
        "Insufficient information for definitive judgment", FALSE)

decide_AiOverrides(alarm_msgs, metadata, func) ==
    LET safety_judgment == evaluate(alarm_msgs, metadata)
        ai == IF func.kind = "None" THEN Raised("no function") ELSE AiJudgment(func)
        calls == IF func.kind = "None" THEN 0 ELSE 1
    IN IF ~IsRaised(ai) THEN [judgment |-> ai, ai_calls |-> calls]
       ELSE IF safety_judgment # NoJudgment
       THEN [judgment |-> safety_judgment, ai_calls |-> calls]
       ELSE [judgment |-> DefaultJudgment, ai_calls |-> calls]

\* HybridJudgment.decide: the judgment returned and the number of calls of
\* ai_judgment_func
decide(alarm_msgs, metadata, func) ==
    LET safety_judgment == evaluate(alarm_msgs, metadata) IN
    IF safety_judgment # NoJudgment
    THEN [judgment |-> safety_judgment, ai_calls |-> 0]
    ELSE IF func.kind # "None"
    THEN LET ai == AiJudgment(func) IN
         IF ~IsRaised(ai) THEN [judgment |-> ai, ai_calls |-> 1]
         ELSE [judgment |-> DefaultJudgment, ai_calls |-> 1]
    ELSE [judgment |-> DefaultJudgment, ai_calls |-> 0]

\* Alarm lists and metadata handed to decide and to LogicalRCA.
DelegationMessages == {"Fan Fail", "Heartbeat Loss", "secret 5 Thermal Shutdown"}

DelegationAlarmLists == UNION {[1..n -> DelegationMessages] : n \in 0..MaxAlarms}

DelegationMetadatas ==
    {<<>>, "psu_count" :> 2,
     ("redundancy_group" :> "HA-FW") @@ ("total_members" :> 2) @@ ("failed_members" :> 1)}

\* What an AI function may return: a dict with or without each key, with
\* values inside and outside the enums, or no dict at all.
AiResults ==
    {PyDict(a @@ b @@ c) :
        a \in Optional("status", {PyStr("CRITICAL"), PyStr("warning"), PyStr("RED"),
                                  PyNone}),
        b \in Optional("impact_type", {PyStr("degraded"), PyStr("Hardware/Physical")}),
        c \in Optional("reason", {PyStr("link flap on uplink")})}
    \cup {PyNone, PyStr("CRITICAL")}

\* ai_judgment_func: not given, raising (unreachable, timed out), or returning.
AiFunctions ==
    {[kind |-> "None"]}
    \cup {[kind |-> "raises", error |-> e] : e \in {"ConnectionError", "TimeoutError"}}
    \cup {[kind |-> "returns", value |-> v] : v \in AiResults}

InitHybrid ==
    /\ alarms \in DelegationAlarmLists
    /\ device_metadata \in DelegationMetadatas
    /\ ai_judgment_func \in AiFunctions
    /\ ai_calls = 0
    /\ rca = <<>>
    /\ judgment = NoJudgment
    /\ baseline = NoJudgment
    /\ called = {}
    /\ ha_args = <<>>
    /\ CascadeIdle
    /\ HelperIdle

\* HybridJudgment.decide(alarms, device_metadata, ai_judgment_func)
Decide ==
    /\ rca = <<>>
    /\ "decide" \notin called
    /\ LET r == decide(alarms, device_metadata, ai_judgment_func)
       IN /\ judgment' = r.judgment
          /\ ai_calls' = r.ai_calls
    /\ called' = called \cup {"decide"}
    /\ UNCHANGED <<alarms, device_metadata, baseline, ha_args, ai_judgment_func,
                   rca, cascadeVars, helperVars>>

(***************************************************************************)
(* inference_engine.py: LogicalRCA                                         *)
(***************************************************************************)
\* The words of a text whose words are separated by single spaces.
RECURSIVE Words(_, _)
Words(s, word) ==
    IF Len(s) = 0 THEN <<word>>
    ELSE IF SubSeq(s, 1, 1) = " "
    THEN <<word>> \o Words(SubSeq(s, 2, Len(s)), "")
    ELSE Words(SubSeq(s, 2, Len(s)), word \o SubSeq(s, 1, 1))

EndsWith(s, suffix) ==
    /\ Len(s) >= Len(suffix)
    /\ SubSeq(s, Len(s) - Len(suffix) + 1, Len(s)) = suffix

\* \d
IsDigit(s) == s \in {"0", "1", "2", "3", "4", "5", "6", "7", "8", "9"}

\* The quoted value opening a word ("[^"]+") replaced by "********"; the
\* word itself when it opens with no such value.
RedactQuoted(w) ==
    LET closing == {p \in 3..Len(w) : SubSeq(w, p, p) = "\""} IN
    IF Len(w) >= 3 /\ SubSeq(w, 1, 1) = "\"" /\ SubSeq(w, 2, 2) # "\"" /\ closing # {}
    THEN "\"********\""
         \o SubSeq(w, (CHOOSE p \in closing : \A q \in closing : p <= q) + 1, Len(w))
    ELSE w

\* re.sub(r'(encrypted-password\s+)"[^"]+"', r'\1"********"', text), for
\* quoted values without white space
RECURSIVE SubEncryptedPassword(_)
SubEncryptedPassword(ws) ==
    IF Len(ws) < 2 THEN ws
    ELSE IF EndsWith(ws[1], "encrypted-password") /\ RedactQuoted(ws[2]) # ws[2]
    THEN <<ws[1], RedactQuoted(ws[2])>> \o SubEncryptedPassword(SubSeq(ws, 3, Len(ws)))
    ELSE <<ws[1]>> \o SubEncryptedPassword(Tail(ws))

\* re.sub(r"(password|secret)\s+(\d)\s+\S+", r"\1 \2 ********", text)
RECURSIVE SubPasswordSecret(_)
SubPasswordSecret(ws) ==
    IF Len(ws) < 3 THEN ws
    ELSE IF (EndsWith(ws[1], "password") \/ EndsWith(ws[1], "secret"))
            /\ IsDigit(ws[2]) /\ Len(ws[3]) > 0
    THEN <<ws[1], ws[2], "********">> \o SubPasswordSecret(SubSeq(ws, 4, Len(ws)))
    ELSE <<ws[1]>> \o SubPasswordSecret(Tail(ws))

\* re.sub(r"(username\s+\S+\s+secret)\s+\d\s+\S+", r"\1 5 ********", text)
RECURSIVE SubUsernameSecret(_)
SubUsernameSecret(ws) ==
    IF Len(ws) < 5 THEN ws
    ELSE IF EndsWith(ws[1], "username") /\ Len(ws[2]) > 0 /\ ws[3] = "secret"
            /\ IsDigit(ws[4]) /\ Len(ws[5]) > 0
    THEN <<ws[1], ws[2], ws[3], "5", "********">>
             \o SubUsernameSecret(SubSeq(ws, 6, Len(ws)))
    ELSE <<ws[1]>> \o SubUsernameSecret(Tail(ws))

\* re.sub(r"(snmp-server community)\s+\S+", r"\1 ********", text)
RECURSIVE SubSnmpCommunity(_)
SubSnmpCommunity(ws) ==
    IF Len(ws) < 3 THEN ws
    ELSE IF EndsWith(ws[1], "snmp-server") /\ ws[2] = "community" /\ Len(ws[3]) > 0
    THEN <<ws[1], ws[2], "********">> \o SubSnmpCommunity(SubSeq(ws, 4, Len(ws)))
    ELSE <<ws[1]>> \o SubSnmpCommunity(Tail(ws))

\* LogicalRCA._sanitize_text
_sanitize_text(text) ==
    join(" ", SubSnmpCommunity(SubUsernameSecret(SubPasswordSecret(
                  SubEncryptedPassword(Words(text, ""))))))

\* int(psu): of an int, or of a string that is one decimal digit here
IntOf(v) ==
    IF v.type = "int" THEN v
    ELSE IF v.type = "str" /\ IsDigit(v.value)
    THEN PyInt(CHOOSE n \in 0..9 : ToString(n) = v.value)
    ELSE Raised("ValueError")

\* LogicalRCA._get_psu_count: `hw_inventory` is the device's
\* metadata.hw_inventory dict ({} when the device or the key is missing)
_get_psu_count(hw_inventory, default) ==
    LET psu == IntOf(Get(hw_inventory, "psu_count", PyInt(default))) IN
    IF IsRaised(psu) THEN default ELSE psu.value

\* A result dict of analyze_redundancy_depth.
Analysis(status, reason, impact_type) ==
    [status |-> status, reason |-> PyStr(reason), impact_type |-> PyStr(impact_type)]

\* analyze_redundancy_depth, lines 231-295: the local safety rules on the
\* joined, sanitized alerts; NoJudgment when none of them decides.
LocalSafetyRules(joined, psu_count) ==
    LET lowered == lower(joined)
        psu_single_fail ==
            \/ Contains("Power Supply", joined) /\ Contains("Failed", joined)
                   /\ ~Contains("Dual", joined)
            \/ Contains("PSU", joined) /\ Contains("Fail", joined)
                   /\ ~Contains("Dual", joined)
        fan_fail ==
            \/ Contains("Fan Fail", joined)
            \/ Contains("FAN", joined) /\ Contains("Fail", joined)
            \/ Contains("Fan", joined) /\ Contains("Fail", joined)
        overheat_hint ==
            \/ Contains("High Temperature", joined)
            \/ Contains("Overheat", joined)
            \/ Contains("Thermal", joined)
        mem_symptom ==
            \/ Contains("Memory High", joined)
            \/ Contains("Memory Leak", joined)
            \/ Contains("memory", lowered)
                   /\ (Contains("leak", lowered) \/ Contains("high", lowered))
        oom_hint ==
            \/ Contains("Out of memory", joined)
            \/ Contains("OOM", joined)
            \/ Contains("killed process", lowered)
            \/ Contains("kernel panic", lowered)
    IN IF \/ Contains("Power Supply: Dual Loss", joined)
          \/ Contains("Dual Loss", joined)
          \/ Contains("Device Down", joined)
          \/ Contains("Thermal Shutdown", joined)
       THEN Analysis("CRITICAL",
                "Device down / dual PSU loss / thermal shutdown detected (local safety rule).",
                "Hardware/Physical")
       ELSE IF psu_single_fail
       THEN IF psu_count >= 2
            THEN Analysis("WARNING",
                     "Single PSU failure with redundancy (psu_count="
                         \o ToString(psu_count) \o ") (local safety rule).",
                     "Hardware/Redundancy")
            ELSE Analysis("CRITICAL",
                     "Single PSU failure without redundancy (psu_count="
                         \o ToString(psu_count) \o ") (local safety rule).",
                     "Hardware/Physical")
       ELSE IF fan_fail
       THEN IF overheat_hint
            THEN Analysis("CRITICAL",
                     "Fan failure with overheat/thermal symptom detected (local safety rule).",
                     "Hardware/Physical")
            ELSE Analysis("WARNING",
                     "Fan failure detected. Service likely continues but risk of thermal escalation (local safety rule).",
                     "Hardware/Degraded")
       ELSE IF mem_symptom
       THEN IF oom_hint
            THEN Analysis("CRITICAL",
                     "Memory leak/high with OOM/crash symptom detected (local safety rule).",
                     "Software/Resource")
            ELSE Analysis("WARNING",
                     "Memory high/leak symptom detected. Likely degraded but not down yet (local safety rule).",
                     "Software/Resource")
       ELSE NoJudgment

\* LogicalRCA._ensure_api_configured: whether the model can be called, and
\* the engine's fields afterwards.  `env` says whether GOOGLE_API_KEY is set
\* and whether genai.configure / GenerativeModel succeed.
_ensure_api_configured(engine, env) ==
    IF engine._api_configured THEN [ok |-> TRUE, engine |-> engine]
    ELSE IF ~env.api_key THEN [ok |-> FALSE, engine |-> engine]
    ELSE IF env.configure_ok
    THEN [ok |-> TRUE,
          engine |-> [model |-> "gemini-1.5-flash", _api_configured |-> TRUE]]
    ELSE [ok |-> FALSE, engine |-> engine]

\* lines 346-349: a leading ```json and a trailing ``` are cut off
StripFences(text) == [text EXCEPT !.fence_open = FALSE, !.fence_close = FALSE]

\* json.loads: the value, or the JSONDecodeError
json_loads(text) ==
    IF text.fence_open \/ text.fence_close \/ text.body.type = "not json"
    THEN Raised("Expecting value: line 1 column 1 (char 0)")
    ELSE text.body

\* lines 353-359
StatusOf(result_json) ==
    LET v == Get(result_json, "status", PyStr("CRITICAL"))
        status_str == upper(IF v.type = "str" THEN v.value
                            ELSE IF v.type = "NoneType" THEN "None"
                            ELSE ToString(v.value))
    IN IF status_str \in {"GREEN", "NORMAL"} THEN "NORMAL"
       ELSE IF status_str \in {"YELLOW", "WARNING"} THEN "WARNING"
       ELSE "CRITICAL"

\* lines 339-373: the model call and the reading of its response
ModelJudgment(response) ==
    IF response.kind = "raises"
    THEN Analysis("WARNING", "AI Analysis Failed: " \o response.error, "AI_ERROR")
    ELSE LET result_json == json_loads(StripFences(response.text)) IN
         IF IsRaised(result_json)
         THEN Analysis("WARNING", "AI Analysis Failed: " \o result_json.message,
                       "AI_ERROR")
         ELSE IF result_json.type # "dict"
         THEN Analysis("WARNING",
                  "AI Analysis Failed: '" \o result_json.type
                      \o "' object has no attribute 'get'",
                  "AI_ERROR")
         ELSE [status |-> StatusOf(result_json.value),
               reason |-> Get(result_json.value, "reason", PyStr("AI provided no reason")),
               impact_type |-> Get(result_json.value, "impact_type", PyStr("UNKNOWN"))]

\* analyze_redundancy_depth up to the model call (lines 218-305): the result
\* it returns, or NoJudgment when it goes on to call the model, and the
\* engine's fields afterwards.
BeforeModel(engine, env, hw_inventory, alerts) ==
    IF Len(alerts) = 0
    THEN [result |-> Analysis("NORMAL", "No active alerts detected.", "NONE"),
          engine |-> engine]
    ELSE LET safe_alerts == [i \in 1..Len(alerts) |-> _sanitize_text(alerts[i])]
             joined == join(" ", safe_alerts)
             local == LocalSafetyRules(joined, _get_psu_count(hw_inventory, 1))
             api == _ensure_api_configured(engine, env)
         IN IF local # NoJudgment
            THEN [result |-> local, engine |-> engine]
            ELSE IF ~api.ok
            THEN [result |-> Analysis("WARNING",
                                 "API key not configured. Manual analysis required.",
                                 "UNKNOWN"),
                  engine |-> api.engine]
            ELSE [result |-> NoJudgment, engine |-> api.engine]

\* LogicalRCA.analyze_redundancy_depth: the result, the engine's fields
\* afterwards and the number of calls of model.generate_content.
\* `before` is BeforeModel of the call's inputs, `response` is what the
\* model call does if it is made.
analyze_redundancy_depth(before, response) ==
    IF before.result # NoJudgment
    THEN [result |-> before.result, engine |-> before.engine, model_calls |-> 0]
    ELSE [result |-> ModelJudgment(response), engine |-> before.engine,
          model_calls |-> 1]

\* Alerts handed to analyze_redundancy_depth.
RcaAlerts ==
    {"Power Supply 1 Failed", "Fan Fail", "Heartbeat Loss", "secret 5 Thermal Shutdown"}

RcaAlertLists == UNION {[1..n -> RcaAlerts] : n \in 0..MaxAlarms}

\* metadata.hw_inventory of the device in topology.json
HwInventories == {<<>>, "psu_count" :> PyInt(2), "psu_count" :> PyStr("n/a")}

\* LogicalRCA.__init__ leaves the engine unconfigured; an earlier call may
\* have configured it.
Engines ==
    {[model |-> None, _api_configured |-> FALSE],
     [model |-> "gemini-1.5-flash", _api_configured |-> TRUE]}

\* GOOGLE_API_KEY set or not, genai.configure succeeding or not
Environments == [api_key : BOOLEAN, configure_ok : BOOLEAN]

\* What json.loads may find in the text of a response.
ResponseBodies ==
    {PyDict(a @@ b @@ ("reason" :> PyStr("link flap on uplink"))) :
        a \in Optional("status", {PyStr("CRITICAL"), PyStr("warning"), PyStr("GREEN"),
                                  PyStr("bogus"), PyNone}),
        b \in Optional("impact_type", {PyStr("OUTAGE")})}
    \cup {PyDict(<<>>), PyStr("CRITICAL"), [type |-> "not json"]}

Text(fence_open, body, fence_close) ==
    [fence_open |-> fence_open, body |-> body, fence_close |-> fence_close]

\* What model.generate_content may do: raise (unreachable, timed out), or
\* return a text, fenced or not.
ModelResponses ==
    {[kind |-> "raises", error |-> e] :
        e \in {"ServiceUnavailable", "504 Deadline Exceeded"}}
    \cup {[kind |-> "returns", text |-> Text(FALSE, b, FALSE)] : b \in ResponseBodies}
    \cup {[kind |-> "returns", text |-> Text(f[1], PyDict("status" :> PyStr("YELLOW")), f[2])] :
             f \in {<<TRUE, TRUE>>, <<TRUE, FALSE>>, <<FALSE, TRUE>>}}

NotCalled == [kind |-> "not called"]

InitRCA ==
    /\ alarms \in RcaAlertLists
    /\ rca \in [engine : Engines, env : Environments, hw_inventory : HwInventories,
                response : {NotCalled}, result : {NoJudgment}]
    /\ ai_calls = 0
    /\ ai_judgment_func = [kind |-> "None"]
    /\ device_metadata = <<>>
    /\ judgment = NoJudgment
    /\ baseline = NoJudgment
    /\ called = {}
    /\ ha_args = <<>>
    /\ CascadeIdle
    /\ HelperIdle

\* LogicalRCA.analyze_redundancy_depth(device_id, alarms)
AnalyzeRedundancyDepth ==
    /\ rca # <<>>
    /\ "analyze_redundancy_depth" \notin called
    /\ LET before == BeforeModel(rca.engine, rca.env, rca.hw_inventory, alarms)
       IN \E response \in ModelResponses :
            LET r == analyze_redundancy_depth(before, response)
            IN /\ rca' = [rca EXCEPT !.engine = r.engine, !.result = r.result,
                                     !.response = IF r.model_calls = 1 THEN response
                                                  ELSE NotCalled]
               /\ ai_calls' = r.model_calls
    /\ called' = called \cup {"analyze_redundancy_depth"}
    /\ UNCHANGED <<alarms, device_metadata, judgment, baseline, ha_args,
                   ai_judgment_func, cascadeVars, helperVars>>

InitDelegation == InitHybrid \/ InitRCA

NextDelegation == Decide \/ AnalyzeRedundancyDepth

SpecDelegation == InitDelegation /\ [][NextDelegation]_vars

(***************************************************************************)
(* Claims on AI delegation                                                 *)
(***************************************************************************)
DecideDone == "decide" \in called

RcaDone == "analyze_redundancy_depth" \in called

\* What the local safety rules of analyze_redundancy_depth say of the alerts.
RcaLocal ==
    LocalSafetyRules(join(" ", [i \in 1..Len(alarms) |-> _sanitize_text(alarms[i])]),
                     _get_psu_count(rca.hw_inventory, 1))

\* C9: the AI is consulted only after the deterministic rules found no
\* match.  In HybridJudgment.decide a supplied ai_judgment_func is called
\* exactly when SafetyRuleEngine.evaluate returned no judgment, and a
\* judgment of evaluate is returned unchanged.  In
\* LogicalRCA.analyze_redundancy_depth the model is called only when there
\* are alerts and no local safety rule matched, and the judgment of a local
\* rule is returned unchanged.
C9_AiOnlyAfterRules ==
    /\ DecideDone =>
         LET safety_judgment == evaluate(alarms, device_metadata) IN
         /\ ai_calls \in {0, 1}
         /\ ai_calls = 1 <=> (safety_judgment = NoJudgment
                                 /\ ai_judgment_func.kind # "None")
         /\ safety_judgment # NoJudgment => judgment = safety_judgment
    /\ RcaDone =>
         LET local == IF Len(alarms) = 0 THEN NoJudgment ELSE RcaLocal IN
         /\ ai_calls \in {0, 1}
         /\ ai_calls = 1 => (Len(alarms) > 0 /\ local = NoJudgment)
         /\ local # NoJudgment => (rca.result = local /\ rca.response = NotCalled)

\* An AI function that answers CRITICAL is given, a deterministic rule
\* matches, and the rule's judgment is what decide returned; and the local
\* rules of LogicalRCA decide with the model ready to be called.
C9_Witness ==
    \/ /\ DecideDone
       /\ ai_judgment_func.kind = "returns"
       /\ ai_judgment_func.value.type = "dict"
       /\ Get(ai_judgment_func.value.value, "status", PyNone) = PyStr("CRITICAL")
       /\ judgment.status = "WARNING"
       /\ judgment.is_definitive
       /\ ai_calls = 0
    \/ /\ RcaDone
       /\ rca.engine._api_configured
       /\ rca.result.status = "WARNING"
       /\ rca.result.impact_type = PyStr("Hardware/Degraded")
       /\ ai_calls = 0

\* The AI function of decide failed: it raised, or what it returned could
\* not be read as a judgment.
AiFunctionFailed ==
    /\ ai_judgment_func.kind # "None"
    /\ IsRaised(AiJudgment(ai_judgment_func))

\* The model of LogicalRCA failed: the call raised, or the text it returned
\* is no JSON object.
ModelFailed ==
    \/ rca.response.kind = "raises"
    \/ /\ rca.response.kind = "returns"
       /\ LET result_json == json_loads(StripFences(rca.response.text))
          IN IsRaised(result_json) \/ result_json.type # "dict"

\* C10: when no deterministic rule matches and the AI is unreachable, times
\* out, raises or returns something that cannot be parsed, the judgment is
\* WARNING with impact_type UNKNOWN and marked non-definitive, in
\* HybridJudgment.decide and in LogicalRCA.analyze_redundancy_depth alike.
C10_AiFailureDegrades ==
    /\ (DecideDone /\ ai_calls = 1 /\ AiFunctionFailed) =>
         /\ Is(judgment, "WARNING", "UNKNOWN")
         /\ ~judgment.is_definitive
    /\ (RcaDone /\ ai_calls = 1 /\ ModelFailed) =>
         /\ rca.result.status = "WARNING"
         /\ rca.result.impact_type = PyStr("UNKNOWN")

(***************************************************************************)
(* safety_rules.py: OutputValidator.validate_judgment                      *)
(***************************************************************************)
PyBool(b) == [type |-> "bool", value |-> b]

\* OutputValidator.validate_judgment(judgment, expected_keys), the judgment
\* named ai_judgment here; an empty
\* expected_keys stands for None and for [] alike (`expected_keys or [...]`).
validate_judgment(ai_judgment, expected_keys) ==
    IF ai_judgment.type # "dict" THEN PyBool(FALSE)
    ELSE LET keys == IF expected_keys = <<>> THEN <<"status", "reason", "impact_type">>
                     ELSE expected_keys
             status == Get(ai_judgment.value, "status", PyStr(""))
         IN IF \E i \in 1..Len(keys) : keys[i] \notin DOMAIN ai_judgment.value
            THEN PyBool(FALSE)
            ELSE IF status.type # "str" THEN Raised("AttributeError")
            ELSE IF upper(status.value) \notin {"NORMAL", "WARNING", "CRITICAL"}
            THEN PyBool(FALSE)
            ELSE PyBool(TRUE)

\* The impact_type of a response dict lies in ImpactType.
ImpactInDomain(response) ==
    /\ "impact_type" \in DOMAIN response
    /\ response["impact_type"].type = "str"
    /\ upper(response["impact_type"].value) \in ImpactTypeNames

\* A response dict that lacks one of status, reason, impact_type, or whose
\* status or impact_type is outside its enum.
InvalidResponse(v) ==
    /\ v.type = "dict"
    /\ \/ validate_judgment(v, <<>>) # PyBool(TRUE)
       \/ ~ImpactInDomain(v.value)

\* C11: an AI response that lacks one of the keys status, reason and
\* impact_type, or whose status or impact_type is outside its enum, ends in
\* the WARNING/UNKNOWN fallback, in HybridJudgment.decide and in
\* LogicalRCA.analyze_redundancy_depth.
C11_InvalidResponseFallsBack ==
    /\ (DecideDone /\ ai_calls = 1 /\ ai_judgment_func.kind = "returns"
          /\ InvalidResponse(ai_judgment_func.value))
         => Is(judgment, "WARNING", "UNKNOWN")
    /\ (RcaDone /\ ai_calls = 1 /\ rca.response.kind = "returns" /\ ~ModelFailed
          /\ InvalidResponse(json_loads(StripFences(rca.response.text))))
         => /\ rca.result.status = "WARNING"
            /\ rca.result.impact_type = PyStr("UNKNOWN")

(***************************************************************************)
(* ai_helpers.py: AIClient.generate_with_retry, with_ai_retry;             *)
(* app.py: generate_content_with_retry                                     *)
(***************************************************************************)
Returned(value) == [kind |-> "returned", value |-> value]

RaisedError(error, message) == [kind |-> "raised", error |-> error, message |-> message]

Pending == [kind |-> "pending"]

\* for attempt in range(max_retries): the range is used up
RangeExhaustedLate(attempt, max_retries) == attempt >= max_retries + 1

RangeExhausted(attempt, max_retries) == attempt >= max_retries

\* attempt == max_retries - 1
IsLastAttempt(attempt, max_retries) == attempt = max_retries - 1

\* except google_exceptions.DeadlineExceeded: raise AITimeoutError
DeadlineIsFinalNever(outcome) == FALSE

DeadlineIsFinal(outcome) == outcome = "DeadlineExceeded"

\* What one call of the model (of the wrapped function) does.
CallOutcomes ==
    {"ok", "invalid", "ServiceUnavailable", "DeadlineExceeded", "Exception"}

\* The loop goes on: time.sleep(seconds), then the next attempt.
SleepAndRetry(call, outcome, seconds) ==
    [call EXCEPT !.calls = @ + 1, !.outcomes = Append(@, outcome),
                 !.sleeps = Append(@, seconds), !.attempt = @ + 1]

\* The call ends with `result` after the model was called.
EndWith(call, outcome, result) ==
    [call EXCEPT !.calls = @ + 1, !.outcomes = Append(@, outcome),
                 !.pc = "done", !.result = result]

\* One iteration of the loop of AIClient.generate_with_retry (lines
\* 150-179), or the raise after the loop (line 181).
generate_with_retry(call, outcome) ==
    IF RangeExhausted(call.attempt, call.max_retries)
    THEN [call EXCEPT !.pc = "done",
                      !.result = RaisedError("AIResponseError", "Max retries reached")]
    ELSE IF outcome = "ok" \/ (outcome = "invalid" /\ (call.stream \/ ~call.validator))
    THEN EndWith(call, outcome, Returned(IF call.stream THEN "response" ELSE "text"))
    ELSE IF outcome = "ServiceUnavailable"
    THEN IF IsLastAttempt(call.attempt, call.max_retries)
         THEN EndWith(call, outcome,
                  RaisedError("AIResponseError", "Service unavailable after retries"))
         ELSE SleepAndRetry(call, outcome, call.retry_delay * (call.attempt + 1))
    ELSE IF DeadlineIsFinal(outcome)
    THEN EndWith(call, outcome, RaisedError("AITimeoutError", "Request timeout after 30.0s"))
    ELSE IF IsLastAttempt(call.attempt, call.max_retries)
    THEN EndWith(call, outcome,
             RaisedError("AIResponseError",
                 "AI generation failed: "
                     \o (IF outcome = "invalid" THEN "Response validation failed"
                         ELSE outcome)))
    ELSE SleepAndRetry(call, outcome, call.retry_delay)

\* One iteration of the loop of the wrapper made by with_ai_retry (lines
\* 451-458), or its falling off the loop; "invalid" is the wrapped function
\* raising AIResponseError.
with_ai_retry(call, outcome) ==
    IF RangeExhausted(call.attempt, call.max_retries)
    THEN [call EXCEPT !.pc = "done", !.result = Returned(None)]
    ELSE IF outcome = "ok" THEN EndWith(call, outcome, Returned("text"))
    ELSE IF outcome \in {"ServiceUnavailable", "invalid"}
    THEN IF IsLastAttempt(call.attempt, call.max_retries)
         THEN EndWith(call, outcome,
                  RaisedError(IF outcome = "invalid" THEN "AIResponseError" ELSE outcome,
                              "re-raised"))
         ELSE SleepAndRetry(call, outcome, call.retry_delay * (call.attempt + 1))
    ELSE EndWith(call, outcome, RaisedError(outcome, "propagated"))

\* One iteration of the loop of generate_content_with_retry (app.py lines
\* 598-605), or its return None after the loop.  The model's response is
\* returned as it is, so "invalid" is a response like any other.
generate_content_with_retry(call, outcome) ==
    IF RangeExhausted(call.attempt, call.max_retries)
    THEN [call EXCEPT !.pc = "done", !.result = Returned(None)]
    ELSE IF outcome \in {"ok", "invalid"} THEN EndWith(call, outcome, Returned("response"))
    ELSE IF outcome = "ServiceUnavailable"
    THEN IF IsLastAttempt(call.attempt, call.max_retries)
         THEN EndWith(call, outcome, RaisedError(outcome, "re-raised"))
         ELSE SleepAndRetry(call, outcome, 2 * (call.attempt + 1))
    ELSE EndWith(call, outcome, RaisedError(outcome, "propagated"))

\* AIConfig.retry_delay / the decorator's delay, in seconds
RetryDelays == {1, 2}

RetryingFunctions == {"generate_with_retry", "with_ai_retry", "generate_content_with_retry"}

\* A call that has just entered its loop.
RetryCalls ==
    {[fn |-> fn, max_retries |-> n, retry_delay |-> d, stream |-> s, validator |-> v,
      attempt |-> 0, calls |-> 0, outcomes |-> <<>>, sleeps |-> <<>>,
      pc |-> "loop", result |-> Pending] :
        fn \in RetryingFunctions, n \in 0..MaxRetries, d \in RetryDelays,
        s \in BOOLEAN, v \in BOOLEAN}

InitRetry ==
    /\ retry \in {c \in RetryCalls :
                    /\ c.fn = "generate_content_with_retry" => c.retry_delay = 2
                    /\ c.fn # "generate_with_retry" => (~c.stream /\ ~c.validator)
                    /\ c.stream => ~c.validator}
    /\ client = <<>>
    /\ scenario = <<>>
    /\ CascadeIdle
    /\ SafetyIdle
    /\ AiIdle

GenerateWithRetry ==
    /\ retry.fn = "generate_with_retry"
    /\ retry.pc = "loop"
    /\ \E outcome \in CallOutcomes : retry' = generate_with_retry(retry, outcome)
    /\ UNCHANGED <<client, scenario, cascadeVars, safetyVars, aiVars>>

WithAiRetry ==
    /\ retry.fn = "with_ai_retry"
    /\ retry.pc = "loop"
    /\ \E outcome \in CallOutcomes : retry' = with_ai_retry(retry, outcome)
    /\ UNCHANGED <<client, scenario, cascadeVars, safetyVars, aiVars>>

GenerateContentWithRetry ==
    /\ retry.fn = "generate_content_with_retry"
    /\ retry.pc = "loop"
    /\ \E outcome \in CallOutcomes : retry' = generate_content_with_retry(retry, outcome)
    /\ UNCHANGED <<client, scenario, cascadeVars, safetyVars, aiVars>>

NextRetry == GenerateWithRetry \/ WithAiRetry \/ GenerateContentWithRetry

SpecRetry == InitRetry /\ [][NextRetry]_vars

SpecRetryFair == SpecRetry /\ WF_vars(NextRetry)

(***************************************************************************)
(* Claims on the retrying calls                                            *)
(***************************************************************************)
IsGenerateWithRetry == retry # <<>> /\ retry.fn = "generate_with_retry"

RetryDone == retry # <<>> /\ retry.pc = "done"

\* C12: AIClient.generate_with_retry terminates against a backend that keeps
\* failing: the model is never called more than max_retries times, no sleep
\* exceeds retry_delay * max_retries, and the call ends by returning or by
\* raising AIResponseError or AITimeoutError.
C12_RetryTerminates ==
    /\ [](IsGenerateWithRetry =>
            /\ retry.calls <= retry.max_retries
            /\ Len(retry.sleeps) <= retry.calls
            /\ \A i \in 1..Len(retry.sleeps) :
                 retry.sleeps[i] <= retry.retry_delay * retry.max_retries)
    /\ IsGenerateWithRetry ~>
         /\ RetryDone
         /\ \/ retry.result.kind = "returned"
            \/ /\ retry.result.kind = "raised"
               /\ retry.result.error \in {"AIResponseError", "AITimeoutError"}

\* The backend failed on every one of three or more attempts and the call
\* ended with AIResponseError after exactly max_retries model calls.
C12_Witness ==
    /\ IsGenerateWithRetry
    /\ RetryDone
    /\ retry.max_retries >= 3
    /\ retry.calls = retry.max_retries
    /\ \A i \in 1..Len(retry.outcomes) : retry.outcomes[i] = "ServiceUnavailable"
    /\ retry.result = RaisedError("AIResponseError", "Service unavailable after retries")

\* C13: a DeadlineExceeded from the model is never retried by
\* generate_with_retry: it is the last model call, no sleep follows it, and
\* the call ends with AITimeoutError, whatever budget remains.
C13_DeadlineNeverRetried ==
    IsGenerateWithRetry =>
      \A i \in 1..Len(retry.outcomes) :
        retry.outcomes[i] = "DeadlineExceeded" =>
          /\ i = Len(retry.outcomes)
          /\ retry.calls = i
          /\ Len(retry.sleeps) = i - 1
          /\ retry.pc = "done"
          /\ retry.result.kind = "raised"
          /\ retry.result.error = "AITimeoutError"

\* The deadline was exceeded on the second attempt of a call with budget
\* to spare.
C13_Witness ==
    /\ IsGenerateWithRetry
    /\ retry.max_retries >= 3
    /\ retry.outcomes = <<"ServiceUnavailable", "DeadlineExceeded">>
    /\ RetryDone

\* C14: only ServiceUnavailable is retried: in generate_with_retry and in a
\* function wrapped by with_ai_retry, a response that fails validation and
\* every error other than ServiceUnavailable end the call on the attempt
\* where they occur, with no further model call.
C14_OnlyTransientRetried ==
    (retry # <<>> /\ retry.fn \in {"generate_with_retry", "with_ai_retry"}) =>
      \A i \in 1..Len(retry.outcomes) :
        retry.outcomes[i] # "ServiceUnavailable" =>
          /\ i = Len(retry.outcomes)
          /\ retry.pc = "done"

\* C15: the waits after successive ServiceUnavailable errors double: the
\* first is retry_delay (2 seconds in generate_content_with_retry) and each
\* later one is twice the one before, in all three retrying functions.
C15_BackoffDoubles ==
    (retry # <<>> /\ \A i \in 1..Len(retry.outcomes) :
                        retry.outcomes[i] = "ServiceUnavailable") =>
      /\ Len(retry.sleeps) >= 1 => retry.sleeps[1] = retry.retry_delay
      /\ \A k \in 1..(Len(retry.sleeps) - 1) :
           retry.sleeps[k + 1] = 2 * retry.sleeps[k]

(***************************************************************************)
(* ai_helpers.py: AIClient.__new__, __init__, _configure                   *)
(*                                                                         *)
(* Each thread runs AIClient(): __new__ tests cls._instance, creates and   *)
(* stores an instance, returns cls._instance; __init__ tests               *)
(* self._configured and calls _configure.  No lock is taken, so a thread   *)
(* switch may fall between any two of these steps.                         *)
(***************************************************************************)
Threads == 1..MaxThreads

\* client.instance is cls._instance: None (0) or the number of an instance;
\* client.instances is how many instances super().__new__ has made;
\* client.configured is the set of instances whose _configured is True.
InitClient ==
    /\ client \in {[api_key |-> k, instance |-> 0, instances |-> 0, configured |-> {},
                    configure_runs |-> 0,
                    pc |-> [t \in Threads |-> "new"],
                    self |-> [t \in Threads |-> 0]] : k \in BOOLEAN}
    /\ retry = <<>>
    /\ scenario = <<>>
    /\ CascadeIdle
    /\ SafetyIdle
    /\ AiIdle

\* __new__: if cls._instance is None
AIClientNew(t) ==
    /\ client.pc[t] = "new"
    /\ client' = [client EXCEPT !.pc[t] = IF client.instance = 0 THEN "create"
                                          ELSE "return"]
    /\ UNCHANGED <<retry, scenario, cascadeVars, safetyVars, aiVars>>

\* __new__: cls._instance = super().__new__(cls)
AIClientCreate(t) ==
    /\ client.pc[t] = "create"
    /\ client' = [client EXCEPT !.instances = @ + 1, !.instance = client.instances + 1,
                                !.pc[t] = "return"]
    /\ UNCHANGED <<retry, scenario, cascadeVars, safetyVars, aiVars>>

\* __new__: return cls._instance
AIClientReturn(t) ==
    /\ client.pc[t] = "return"
    /\ client' = [client EXCEPT !.self[t] = client.instance, !.pc[t] = "init"]
    /\ UNCHANGED <<retry, scenario, cascadeVars, safetyVars, aiVars>>

\* __init__: if not self._configured
AIClientInit(t) ==
    /\ client.pc[t] = "init"
    /\ client' = [client EXCEPT !.pc[t] = IF client.self[t] \in client.configured
                                          THEN "done" ELSE "configure"]
    /\ UNCHANGED <<retry, scenario, cascadeVars, safetyVars, aiVars>>

\* _configure: raise AIConfigError without a key, else genai.configure and
\* self._configured = True
_configure(t) ==
    /\ client.pc[t] = "configure"
    /\ client' = IF client.api_key
                 THEN [client EXCEPT !.configure_runs = @ + 1,
                                     !.configured = @ \cup {client.self[t]},
                                     !.pc[t] = "done"]
                 ELSE [client EXCEPT !.configure_runs = @ + 1,
                                     !.pc[t] = "AIConfigError"]
    /\ UNCHANGED <<retry, scenario, cascadeVars, safetyVars, aiVars>>

NextClient ==
    \E t \in Threads :
        \/ AIClientNew(t)
        \/ AIClientCreate(t)
        \/ AIClientReturn(t)
        \/ AIClientInit(t)
        \/ _configure(t)

SpecClient == InitClient /\ [][NextClient]_vars

\* C16: whatever the interleaving of the threads that construct AIClient()
\* for the first time (with an API key set), one instance at most is ever
\* created, _configure runs at most once, and the threads that have their
\* instance all have the same one.
C16_SingletonOnce ==
    (client # <<>> /\ client.api_key) =>
      /\ client.instances <= 1
      /\ client.configure_runs <= 1
      /\ \A t, u \in Threads :
           (client.self[t] # 0 /\ client.self[u] # 0) => client.self[t] = client.self[u]

(***************************************************************************)
(* inference_engine.py: LogicalRCA.analyze                                 *)
(*                                                                         *)
(* Probabilities are written in tenths: prob 9 is 0.9, prob 0 is 0.0.      *)
(***************************************************************************)
Candidate(id, label, prob, type, tier, reason) ==
    [id |-> id, label |-> label, prob |-> prob, type |-> type, tier |-> tier,
     reason |-> reason]

\* msg_map.keys(): the devices of the alarms in the order of their first
\* appearance
RECURSIVE DeviceOrder(_)
DeviceOrder(alarm_list) ==
    IF alarm_list = <<>> THEN <<>>
    ELSE LET rest == DeviceOrder(SubSeq(alarm_list, 1, Len(alarm_list) - 1))
             d == alarm_list[Len(alarm_list)].device_id
         IN IF \E i \in 1..Len(rest) : rest[i] = d THEN rest ELSE Append(rest, d)

\* msg_map[device_id]
RECURSIVE MessagesOf(_, _)
MessagesOf(alarm_list, device_id) ==
    IF alarm_list = <<>> THEN <<>>
    ELSE (IF Head(alarm_list).device_id = device_id THEN <<Head(alarm_list).message>>
          ELSE <<>>) \o MessagesOf(Tail(alarm_list), device_id)

\* LogicalRCA._get_parent_id on a topology of dicts
_get_parent_id(topo, device_id) == Get(Get(topo, device_id, <<>>), "parent_id", None)

\* metadata.hw_inventory of LogicalRCA._get_metadata(device_id)
HwInventoryOf(topo, device_id) ==
    Get(Get(Get(topo, device_id, <<>>), "metadata", <<>>), "hw_inventory", <<>>)

\* parent_is_alarmed(dev)
parent_is_alarmed(topo, alarm_list, dev) ==
    LET parent == _get_parent_id(topo, dev) IN
    /\ parent # None
    /\ parent # ""
    /\ \E i \in 1..Len(alarm_list) : alarm_list[i].device_id = parent

\* lines 162-163: the device is only a downstream victim
IsDownstream(topo, alarm_list, dev) ==
    /\ \E i \in 1..Len(alarm_list) :
         /\ alarm_list[i].device_id = dev
         /\ Contains("Unreachable", alarm_list[i].message)
    /\ parent_is_alarmed(topo, alarm_list, dev)

\* lines 177-189: prob and tier of an analysis, or the TypeError of
\* `"API key not configured" in reason` for a reason that is no string
ProbTier(analysis) ==
    IF analysis.impact_type = PyStr("UNKNOWN") /\ analysis.reason.type # "str"
    THEN Raised("TypeError")
    ELSE IF /\ analysis.impact_type = PyStr("UNKNOWN")
            /\ Contains("API key not configured", analysis.reason.value)
    THEN [prob |-> 5, tier |-> 3]
    ELSE IF analysis.status = "CRITICAL" THEN [prob |-> 9, tier |-> 1]
    ELSE IF analysis.status = "WARNING" THEN [prob |-> 7, tier |-> 2]
    ELSE [prob |-> 3, tier |-> 3]

RECURSIVE InsertBeforeEqual(_, _)
InsertBeforeEqual(c, sorted) ==
    IF sorted = <<>> THEN <<c>>
    ELSE IF Head(sorted).prob > c.prob
    THEN <<Head(sorted)>> \o InsertBeforeEqual(c, Tail(sorted))
    ELSE <<c>> \o sorted

\* One step of list.sort, which is stable: `c`, the next element of the
\* list, goes behind every candidate whose prob is not smaller.
RECURSIVE InsertByProb(_, _)
InsertByProb(c, sorted) ==
    IF sorted = <<>> THEN <<c>>
    ELSE IF Head(sorted).prob >= c.prob
    THEN <<Head(sorted)>> \o InsertByProb(c, Tail(sorted))
    ELSE <<c>> \o sorted

\* results.sort(key=lambda x: x["prob"], reverse=True)
RECURSIVE SortByProb(_)
SortByProb(results) ==
    IF results = <<>> THEN <<>>
    ELSE InsertByProb(results[Len(results)],
                      SortByProb(SubSeq(results, 1, Len(results) - 1)))

\* The loop of analyze over msg_map (lines 161-198) from the devices
\* `order` on: the candidates, the engine's fields afterwards, the number of
\* model calls, and the error that ended the loop (None when none did).
RECURSIVE AnalyzeLoop(_, _, _, _, _, _)
AnalyzeLoop(topo, env, alarm_list, responses, order, engine) ==
    IF order = <<>>
    THEN [results |-> <<>>, engine |-> engine, model_calls |-> 0, error |-> None]
    ELSE LET device_id == Head(order)
             messages == MessagesOf(alarm_list, device_id)
             label == join(" / ", messages)
         IN IF IsDownstream(topo, alarm_list, device_id)
            THEN LET rest == AnalyzeLoop(topo, env, alarm_list, responses,
                                         Tail(order), engine)
                 IN [rest EXCEPT !.results =
                        <<Candidate(device_id, label, 2, PyStr("Network/Unreachable"), 3,
                              PyStr("Downstream unreachable due to upstream alarm (parent="
                                        \o _get_parent_id(topo, device_id) \o ")."))>>
                        \o @]
            ELSE LET before == BeforeModel(engine, env, HwInventoryOf(topo, device_id),
                                           messages)
                     r == analyze_redundancy_depth(before,
                              Get(responses, device_id, NotCalled))
                     pt == ProbTier(r.result)
                 IN IF IsRaised(pt)
                    THEN [results |-> <<>>, engine |-> r.engine,
                          model_calls |-> r.model_calls, error |-> pt.message]
                    ELSE LET rest == AnalyzeLoop(topo, env, alarm_list, responses,
                                                 Tail(order), r.engine)
                         IN [rest EXCEPT
                               !.results =
                                  <<Candidate(device_id, label, pt.prob,
                                              r.result.impact_type, pt.tier,
                                              r.result.reason)>> \o @,
                               !.model_calls = @ + r.model_calls]

\* LogicalRCA.analyze(alarms): what the call returns or raises, the engine's
\* fields afterwards and the number of model calls.
analyze(topo, env, engine, alarm_list, responses) ==
    IF alarm_list = <<>>
    THEN [outcome |-> Returned(<<Candidate("SYSTEM", "No alerts detected", 0,
                                    PyStr("Normal"), 0,
                                    PyStr("No active alerts detected."))>>),
          engine |-> engine, model_calls |-> 0]
    ELSE LET loop == AnalyzeLoop(topo, env, alarm_list, responses,
                                 DeviceOrder(alarm_list), engine)
         IN [outcome |-> IF loop.error # None
                         THEN RaisedError(loop.error,
                                  "argument of type 'NoneType' is not iterable")
                         ELSE Returned(SortByProb(loop.results)),
             engine |-> loop.engine, model_calls |-> loop.model_calls]

\* The alarms handed to analyze: Alarm objects of two devices.
AnalyzeAlarms ==
    {Alarm(d, m, "WARNING") : d \in {"D1", "D2"},
                              m \in {"Fan Fail", "Heartbeat Loss", "Unreachable"}}

AnalyzeAlarmLists == UNION {[1..n -> AnalyzeAlarms] : n \in 0..MaxAlarms}

\* Topologies of dicts: complete, and with missing fields and devices.
AnalyzeTopologies ==
    {("D1" :> (("parent_id" :> None)
                 @@ ("metadata" :> ("hw_inventory" :> ("psu_count" :> PyInt(2))))))
        @@ ("D2" :> ("parent_id" :> "D1")),
     "D1" :> <<>>}

\* What the model does on a call made by analyze.
AnalyzeResponses ==
    {[kind |-> "raises", error |-> "ServiceUnavailable"],
     [kind |-> "returns",
      text |-> Text(FALSE, PyDict(("status" :> PyStr("CRITICAL"))
                                    @@ ("reason" :> PyStr("uplink lost"))
                                    @@ ("impact_type" :> PyStr("OUTAGE"))), FALSE)],
     [kind |-> "returns",
      text |-> Text(FALSE, PyDict(("status" :> PyStr("WARNING"))
                                    @@ ("reason" :> PyNone)
                                    @@ ("impact_type" :> PyStr("UNKNOWN"))), FALSE)]}

\* The devices whose alerts analyze_redundancy_depth hands to the model.
DelegatedDevices(topo, env, engine, alarm_list) ==
    {d \in {alarm_list[i].device_id : i \in 1..Len(alarm_list)} :
        /\ ~IsDownstream(topo, alarm_list, d)
        /\ BeforeModel(engine, env, HwInventoryOf(topo, d),
                       MessagesOf(alarm_list, d)).result = NoJudgment}

\* LogicalRCA(topology) has been constructed; rca.returns lists what each
\* call of analyze so far returned or raised.
InitAnalyze ==
    /\ alarms \in AnalyzeAlarmLists
    /\ rca \in [engine : {[model |-> None, _api_configured |-> FALSE]},
                env : Environments, topology : AnalyzeTopologies, returns : {<<>>}]
    /\ ai_calls = 0
    /\ ai_judgment_func = [kind |-> "None"]
    /\ device_metadata = <<>>
    /\ judgment = NoJudgment
    /\ baseline = NoJudgment
    /\ called = {}
    /\ ha_args = <<>>
    /\ CascadeIdle
    /\ HelperIdle

\* LogicalRCA.analyze(alarms), called up to twice on the same engine
Analyze ==
    /\ Len(rca.returns) < 2
    /\ \E responses \in [DelegatedDevices(rca.topology, rca.env, rca.engine, alarms)
                            -> AnalyzeResponses] :
         LET r == analyze(rca.topology, rca.env, rca.engine, alarms, responses)
         IN /\ rca' = [rca EXCEPT !.engine = r.engine,
                                  !.returns = Append(@, [outcome |-> r.outcome,
                                                         responses |-> responses])]
            /\ ai_calls' = ai_calls + r.model_calls
    /\ called' = called \cup {"analyze"}
    /\ UNCHANGED <<alarms, device_metadata, judgment, baseline, ha_args,
                   ai_judgment_func, cascadeVars, helperVars>>

NextAnalyze == Analyze

SpecAnalyze == InitAnalyze /\ [][NextAnalyze]_vars

(***************************************************************************)
(* Claims on LogicalRCA.analyze                                            *)
(***************************************************************************)
AnalyzeDone == "analyze" \in called

\* What the latest call of analyze returned or raised.
LastOutcome == rca.returns[Len(rca.returns)].outcome

\* The position of a device in the order of first appearance in the alarms.
Discovery(device_id) ==
    CHOOSE i \in 1..Len(DeviceOrder(alarms)) : DeviceOrder(alarms)[i] = device_id

\* C17: for an empty alarm list analyze returns exactly one candidate, the
\* sentinel with id "System", type Normal and probability 0.0.
C17_EmptyGivesSystemSentinel ==
    (AnalyzeDone /\ alarms = <<>>) =>
      /\ LastOutcome.kind = "returned"
      /\ Len(LastOutcome.value) = 1
      /\ LastOutcome.value[1].id = "System"
      /\ LastOutcome.value[1].type = PyStr("Normal")
      /\ LastOutcome.value[1].prob = 0

\* C18: analyze returns a non-empty candidate list and never raises,
\* whatever the alarms, the topology, the API key and the model's answers.
C18_AnalyzeNeverRaises ==
    AnalyzeDone =>
      \A k \in 1..Len(rca.returns) :
        /\ rca.returns[k].outcome.kind = "returned"
        /\ Len(rca.returns[k].outcome.value) >= 1

\* C19: the list analyze returns is in non-increasing order of prob, and
\* candidates of equal prob stand in the order in which their devices first
\* appear in the alarm list.
C19_SortedStable ==
    (AnalyzeDone /\ LastOutcome.kind = "returned" /\ alarms # <<>>) =>
      LET value == LastOutcome.value IN
      \A i, j \in 1..Len(value) :
        i < j =>
          /\ value[i].prob >= value[j].prob
          /\ value[i].prob = value[j].prob
               => Discovery(value[i].id) < Discovery(value[j].id)

\* Two candidates of equal prob were returned, or two candidates of which
\* the later discovered one has the larger prob.
C19_Witness ==
    /\ AnalyzeDone
    /\ LastOutcome.kind = "returned"
    /\ Len(LastOutcome.value) = 2
    /\ LastOutcome.value[1].id = "D1"
    /\ LastOutcome.value[1].prob = LastOutcome.value[2].prob
    /\ alarms[1].device_id = "D1"

\* C20: two calls of analyze on the same engine with the same alarms and
\* the same topology return identical candidate lists.
C20_AnalyzeIdempotent ==
    (AnalyzeDone /\ Len(rca.returns) = 2) =>
      rca.returns[1].outcome = rca.returns[2].outcome

(***************************************************************************)
(* LogicalRCA.analyze on a silent parent and on unknown devices            *)
(***************************************************************************)
\* A switch with three access points below it, as a topology of dicts.
SilentChildren == {"AP_01", "AP_02", "AP_03"}

SilentTopology ==
    ("L2_SW_01" :> ("parent_id" :> "CORE_SW_01"))
        @@ [c \in SilentChildren |-> ("parent_id" :> "L2_SW_01")]

\* 'Connection Lost' on some of the access points, each at most once, in
\* any order; the switch itself has no alarm.
SilentAlarmLists ==
    {s \in UNION {[1..n -> {Alarm(c, "Connection Lost", "CRITICAL") : c \in SilentChildren}] :
                     n \in 1..Cardinality(SilentChildren)} :
        \A i, j \in 1..Len(s) : i # j => s[i] # s[j]}

InitSilent ==
    /\ alarms \in SilentAlarmLists
    /\ rca \in [engine : {[model |-> None, _api_configured |-> FALSE]},
                env : Environments, topology : {SilentTopology}, returns : {<<>>}]
    /\ ai_calls = 0
    /\ ai_judgment_func = [kind |-> "None"]
    /\ device_metadata = <<>>
    /\ judgment = NoJudgment
    /\ baseline = NoJudgment
    /\ called = {}
    /\ ha_args = <<>>
    /\ CascadeIdle
    /\ HelperIdle

SpecSilent == InitSilent /\ [][NextAnalyze]_vars

\* C21: with a parent of three children that has no alarm itself, analyze
\* returns a candidate for the parent, of type Network/Silent and
\* probability 0.98 (9.8 tenths), if at least two children report
\* 'Connection Lost', and no candidate for the parent if only one does.
C21_SilentParentSynthesized ==
    (AnalyzeDone /\ LastOutcome.kind = "returned") =>
      LET value == LastOutcome.value
          parents == {i \in 1..Len(value) : value[i].id = "L2_SW_01"}
      IN IF Len(alarms) >= 2
         THEN \E i \in parents :
                /\ value[i].type = PyStr("Network/Silent")
                /\ value[i].prob * 10 = 98
         ELSE parents = {}

\* C22: an alarm whose device_id is not in the topology is left out of the
\* ranking: analyze returns no candidate for that device.
C22_UnknownDeviceExcluded ==
    (AnalyzeDone /\ LastOutcome.kind = "returned" /\ alarms # <<>>) =>
      \A i \in 1..Len(LastOutcome.value) :
        LastOutcome.value[i].id \in DOMAIN rca.topology

(***************************************************************************)
(* alarm_generator.py: generate_alarms_for_scenario and its helpers;       *)
(* app.py: _make_alarms_legacy                                             *)
(*                                                                         *)
(* The keywords of the scenario labels, one code point at a time.          *)
(***************************************************************************)
\* The keywords of the scenario labels (romanised: meaning):
\*   NORMAL: seijou (normal)
\*   WAN_DOWN: WAN zen-kaisen-dan (all WAN lines down)
\*   FW_HALF: FW kata-kei shougai (one FW of the pair failed)
\*   L2SW_SILENT: L2SW silent shougai (silent failure)
\*   COMPOUND: fukugou shougai (compound failure)
\*   SIMULTANEOUS: douji tahatsu (simultaneous)
\*   PSU_SINGLE: dengen shougai: kata-kei (power supply failure, one side)
\*   PSU_DUAL: dengen shougai: ryou-kei (power supply failure, both sides)
\*   MEMORY: memori (memory)
\*   POWER: dengen (power supply)
\*   HALF: kata-kei (one side)
Keyword ==
    [NORMAL |-> "<U+6B63><U+5E38>",
     WAN_DOWN |-> "WAN<U+5168><U+56DE><U+7DDA><U+65AD>",
     FW_HALF |-> "FW<U+7247><U+7CFB><U+969C><U+5BB3>",
     L2SW_SILENT |-> "L2SW<U+30B5><U+30A4><U+30EC><U+30F3><U+30C8><U+969C><U+5BB3>",
     COMPOUND |-> "<U+8907><U+5408><U+969C><U+5BB3>",
     SIMULTANEOUS |-> "<U+540C><U+6642><U+591A><U+767A>",
     PSU_SINGLE |-> "<U+96FB><U+6E90><U+969C><U+5BB3><U+FF1A><U+7247><U+7CFB>",
     PSU_DUAL |-> "<U+96FB><U+6E90><U+969C><U+5BB3><U+FF1A><U+4E21><U+7CFB>",
     MEMORY |-> "<U+30E1><U+30E2><U+30EA>",
     POWER |-> "<U+96FB><U+6E90>",
     HALF |-> "<U+7247><U+7CFB>"]

\* The scenario labels of the application (SCENARIO_MAP, SCENARIO_IMPACT_MAP),
\* a live-diagnosis label, a label that holds a fault keyword between
\* dashes, and a label that is in no catalog.
ScenarioLabels ==
    {"<U+6B63><U+5E38><U+7A3C><U+50CD>",
     "---",
     "[Live] <U+5B9F><U+6A5F><U+8A3A><U+65AD>",
     "--- FW<U+7247><U+7CFB><U+969C><U+5BB3> ---",
     "1. WAN<U+5168><U+56DE><U+7DDA><U+65AD>",
     "2. FW<U+7247><U+7CFB><U+969C><U+5BB3>",
     "3. L2SW<U+30B5><U+30A4><U+30EC><U+30F3><U+30C8><U+969C><U+5BB3>",
     "[WAN] <U+8907><U+5408><U+969C><U+5BB3><U+FF1A><U+96FB><U+6E90><U+FF06>FAN",
     "[Complex] <U+540C><U+6642><U+591A><U+767A><U+FF1A>FW & AP",
     "4. [WAN] <U+96FB><U+6E90><U+969C><U+5BB3><U+FF1A><U+7247><U+7CFB>",
     "5. [WAN] <U+96FB><U+6E90><U+969C><U+5BB3><U+FF1A><U+4E21><U+7CFB>",
     "6. [WAN] BGP<U+30EB><U+30FC><U+30C8><U+30D5><U+30E9><U+30C3><U+30D4><U+30F3><U+30B0>",
     "10. [FW] <U+96FB><U+6E90><U+969C><U+5BB3><U+FF1A><U+4E21><U+7CFB>",
     "14. [L2SW] <U+96FB><U+6E90><U+969C><U+5BB3><U+FF1A><U+4E21><U+7CFB>",
     "[FW] FAN<U+6545><U+969C>",
     "[L2SW] <U+30E1><U+30E2><U+30EA><U+30EA><U+30FC><U+30AF>",
     "[WAN] Link Flap",
     "[Core] <U+4E21><U+7CFB><U+6545><U+969C>"}

\* line 43: "---" in selected_scenario, and nothing else
IsNormalOrSkipExactDashes(selected_scenario) == selected_scenario = "---"

\* line 43: the label denotes normal operation or a separator
IsNormalOrSkip(selected_scenario) ==
    Contains("---", selected_scenario) \/ Contains(Keyword.NORMAL, selected_scenario)

\* line 47: the label denotes the diagnosis of the live device
IsLive(selected_scenario) ==
    Contains("Live", selected_scenario) \/ Contains("[Live]", selected_scenario)

\* One node of a topology, with the key it has in the topology dict as id.
Node(id, type, layer, parent_id, metadata) ==
    [id |-> id, type |-> type, layer |-> layer, parent_id |-> parent_id,
     metadata |-> metadata]

\* The nodes the topologies are built from: the mock topology of the module's
\* own test, with a second router and a switch of layer 3.
NodePool ==
    {Node("WAN_ROUTER_01", "ROUTER", 1, None, ("vendor" :> "Cisco")),
     Node("WAN_ROUTER_02", "ROUTER", 1, None, <<>>),
     Node("FW_01_PRIMARY", "FIREWALL", 2, "WAN_ROUTER_01", ("role" :> "Active")),
     Node("CORE_SW_01", "SWITCH", 3, "FW_01_PRIMARY", <<>>),
     Node("L2_SW_01", "SWITCH", 4, "CORE_SW_01", ("location" :> "Floor 1")),
     Node("AP_01", "ACCESS_POINT", 5, "L2_SW_01", <<>>)}

\* A topology is a dict of dicts (shape "dict", as in the module's own test) or
\* a dict of objects with attributes (shape "object", as data.TOPOLOGY);
\* topology.items() lists up to MaxNodes nodes, in every order.
GeneratorTopologies ==
    [shape : {"dict", "object"},
     nodes : {s \in UNION {[1..n -> NodePool] : n \in 0..MaxNodes} :
                 \A i, j \in 1..Len(s) : i # j => s[i] # s[j]}]

\* lines 225-230: node.get("type", "UNKNOWN") or getattr(node, "type", "UNKNOWN")
_get_node_type(node) == Get(node, "type", "UNKNOWN")

\* lines 233-238
_get_node_layer(node) == Get(node, "layer", 999)

\* lines 241-246 (alarm_generator._get_parent_id; the name is taken by the
\* method of LogicalRCA)
_get_node_parent_id(node) == Get(node, "parent_id", None)

\* lines 249-256
_get_node_metadata(node) == Get(node, "metadata", <<>>)

\* lines 193-218: the three checks of one iteration; an argument left out is
\* None (PyNone for the layer)
NodeMatches(node, node_type, layer, keyword) ==
    /\ node_type # None => _get_node_type(node) = node_type
    /\ layer # PyNone => PyInt(_get_node_layer(node)) = layer
    /\ keyword # None =>
          \/ Contains(keyword, node.id)
          \/ LET metadata == _get_node_metadata(node)
             IN \E k \in DOMAIN metadata : Contains(keyword, metadata[k])

\* the last node that passes the checks
_find_last_target_node_id(topo, node_type, layer, keyword) ==
    LET hits == SelectSeq(topo.nodes,
                          LAMBDA node : NodeMatches(node, node_type, layer, keyword))
    IN IF hits = <<>> THEN None ELSE hits[Len(hits)].id

\* lines 174-222: the first node, in iteration order, that passes the checks
_find_target_node_id(topo, node_type, layer, keyword) ==
    LET hits == SelectSeq(topo.nodes,
                          LAMBDA node : NodeMatches(node, node_type, layer, keyword))
    IN IF hits = <<>> THEN None ELSE hits[1].id

\* logic.py lines 115-122: the while loop, run to its end
RECURSIVE CascadeLoop(_, _)
CascadeLoop(nodes, st) ==
    IF st.queue = <<>> THEN st.generated_alarms
    ELSE CascadeLoop(nodes,
                     VisitChildren(children(nodes, Head(st.queue)),
                                   [st EXCEPT !.queue = Dequeue(st.queue)]))

\* logic.py lines 108-124, as a function of its two parameters.  The loop
\* reads n.parent_id and child.id: an attribute access, which a dict node
\* does not have.
simulate_cascade_failure(root, topo) ==
    IF topo.shape = "dict" /\ topo.nodes # <<>>
    THEN RaisedError("AttributeError", "'dict' object has no attribute 'parent_id'")
    ELSE Returned(CascadeLoop(topo.nodes,
                    [generated_alarms |-> <<Alarm(root, "Interface Down", "CRITICAL")>>,
                     queue |-> <<root>>,
                     processed |-> {root}]))

\* line 152: simulate_cascade_failure(target_device_id, topology, "Power
\* Supply: Dual Loss (Device Down)"), a call with three arguments of a
\* function that has two parameters
simulate_cascade_failure_3(root, topo, root_message) ==
    RaisedError("TypeError",
                "simulate_cascade_failure() takes 2 positional arguments but 3 were given")

\* lines 69-98: the silent failure of the L2 switch
L2SwSilent(topo) ==
    LET IdsOf(nodes) == [i \in 1..Len(nodes) |-> nodes[i].id]
        t1 == _find_target_node_id(topo, "SWITCH", PyInt(4), "L2")
        t2 == IF t1 = None THEN _find_target_node_id(topo, None, PyNone, "L2_SW") ELSE t1
        target == IF t2 = None THEN _find_target_node_id(topo, "SWITCH", PyNone, None) ELSE t2
        direct == IdsOf(SelectSeq(topo.nodes,
                                  LAMBDA n : _get_node_parent_id(n) = target))
        access == IdsOf(SelectSeq(topo.nodes,
                                  LAMBDA n : upper(_get_node_type(n)) \in {"ACCESS_POINT", "AP"}))
        silent_children == IF direct = <<>> THEN access ELSE direct
    IN IF target # None /\ \E i \in 1..Len(topo.nodes) : topo.nodes[i].id = target
       THEN IF silent_children # <<>>
            THEN \* children[:4]
                 LET first == SubSeq(silent_children, 1,
                                     IF Len(silent_children) < 4
                                     THEN Len(silent_children) ELSE 4)
                 IN Returned([i \in 1..Len(first) |->
                                 Alarm(first[i], "Connection Lost", "CRITICAL")])
            ELSE Returned(<<Alarm(target, "Silent Degradation Suspected", "WARNING")>>)
       ELSE Returned(<<>>)

\* lines 129-167: the scenarios that name a kind of device
DeviceScenario(topo, selected_scenario) ==
    LET target_device_id ==
            IF Contains("[WAN]", selected_scenario)
            THEN _find_target_node_id(topo, "ROUTER", PyNone, None)
            ELSE IF Contains("[FW]", selected_scenario)
            THEN _find_target_node_id(topo, "FIREWALL", PyNone, None)
            ELSE IF Contains("[L2SW]", selected_scenario)
            THEN _find_target_node_id(topo, "SWITCH", PyInt(4), None)
            ELSE None
    IN IF target_device_id = None THEN Returned(<<>>)
       ELSE IF Contains(Keyword.PSU_SINGLE, selected_scenario)
       THEN Returned(<<Alarm(target_device_id, "Power Supply 1 Failed", "WARNING")>>)
       ELSE IF Contains(Keyword.PSU_DUAL, selected_scenario)
       THEN IF Contains("FW", target_device_id)
            THEN Returned(<<Alarm(target_device_id,
                                  "Power Supply: Dual Loss (Device Down)", "CRITICAL")>>)
            ELSE simulate_cascade_failure_3(target_device_id, topo,
                                            "Power Supply: Dual Loss (Device Down)")
       ELSE IF Contains("BGP", selected_scenario)
       THEN Returned(<<Alarm(target_device_id, "BGP Flapping", "WARNING")>>)
       ELSE IF Contains("FAN", selected_scenario)
       THEN Returned(<<Alarm(target_device_id, "Fan Fail", "WARNING")>>)
       ELSE IF Contains(Keyword.MEMORY, selected_scenario)
       THEN Returned(<<Alarm(target_device_id, "Memory High", "WARNING")>>)
       ELSE Returned(<<>>)

\* lines 23-167: the list of alarms, or the exception that leaves the function
generate_alarms_for_scenario(topo, selected_scenario) ==
    LET router == _find_target_node_id(topo, "ROUTER", PyNone, None)
        fw == _find_target_node_id(topo, "FIREWALL", PyNone, None)
        ap == _find_target_node_id(topo, "ACCESS_POINT", PyNone, None)
    IN IF IsNormalOrSkip(selected_scenario) THEN Returned(<<>>)
       ELSE IF IsLive(selected_scenario) THEN Returned(<<>>)
       ELSE IF Contains(Keyword.WAN_DOWN, selected_scenario)
       THEN IF router # None THEN simulate_cascade_failure(router, topo)
            ELSE Returned(<<>>)
       ELSE IF Contains(Keyword.FW_HALF, selected_scenario)
       THEN IF fw # None THEN Returned(<<Alarm(fw, "Heartbeat Loss", "WARNING")>>)
            ELSE Returned(<<>>)
       ELSE IF Contains(Keyword.L2SW_SILENT, selected_scenario) THEN L2SwSilent(topo)
       ELSE IF Contains(Keyword.COMPOUND, selected_scenario)
       THEN IF router # None
            THEN Returned(<<Alarm(router, "Power Supply 1 Failed", "CRITICAL"),
                            Alarm(router, "Fan Fail", "WARNING")>>)
            ELSE Returned(<<>>)
       ELSE IF Contains(Keyword.SIMULTANEOUS, selected_scenario)
       THEN Returned((IF fw # None
                      THEN <<Alarm(fw, "Heartbeat Loss", "WARNING")>> ELSE <<>>)
                     \o (IF ap # None
                         THEN <<Alarm(ap, "Connection Lost", "CRITICAL")>> ELSE <<>>))
       ELSE DeviceScenario(topo, selected_scenario)

\* app.py lines 108-114: getattr(node, "type", "UNKNOWN") and
\* getattr(node, "layer", 999); a dict has neither attribute
_node_type(topo, node) == IF topo.shape = "dict" THEN "UNKNOWN" ELSE node.type

_node_layer(topo, node) == IF topo.shape = "dict" THEN 999 ELSE node.layer

\* app.py lines 116-122: _find_target_node_id of the application
app_find_target_node_id(topo, node_type, layer, keyword) ==
    LET hits == SelectSeq(topo.nodes,
                   LAMBDA node :
                      /\ node_type # None => _node_type(topo, node) = node_type
                      /\ layer # PyNone => PyInt(_node_layer(topo, node)) = layer
                      /\ keyword # None => Contains(keyword, node.id))
    IN IF hits = <<>> THEN None ELSE hits[1].id

\* app.py lines 129-162
_make_alarms_legacy(topo, selected_scenario) ==
    LET fid == app_find_target_node_id(topo, "FIREWALL", PyNone, None)
        target_device_id ==
            IF Contains("[WAN]", selected_scenario) \/ Contains("WAN", selected_scenario)
            THEN app_find_target_node_id(topo, "ROUTER", PyNone, None)
            ELSE IF Contains("[FW]", selected_scenario) \/ Contains("FW", selected_scenario)
            THEN fid
            ELSE IF Contains("[L2SW]", selected_scenario) \/ Contains("L2SW", selected_scenario)
            THEN app_find_target_node_id(topo, "SWITCH", PyInt(4), None)
            ELSE None
    IN IF IsNormalOrSkip(selected_scenario) THEN Returned(<<>>)
       ELSE IF IsLive(selected_scenario) THEN Returned(<<>>)
       ELSE IF Contains(Keyword.FW_HALF, selected_scenario) /\ fid # None
       THEN Returned(<<Alarm(fid, "Heartbeat Loss", "WARNING"),
                       Alarm(fid, "HA State: Degraded", "WARNING")>>)
       ELSE IF target_device_id = None THEN Returned(<<>>)
       ELSE IF Contains(Keyword.POWER, selected_scenario)
       THEN IF Contains(Keyword.HALF, selected_scenario)
            THEN Returned(<<Alarm(target_device_id, "Power Supply 1 Failed", "WARNING")>>)
            ELSE Returned(<<Alarm(target_device_id, "Power Supply: Dual Loss", "CRITICAL")>>)
       ELSE IF Contains("FAN", selected_scenario)
       THEN Returned(<<Alarm(target_device_id, "Fan Fail", "WARNING")>>)
       ELSE IF Contains(Keyword.MEMORY, selected_scenario)
       THEN Returned(<<Alarm(target_device_id, "Memory High", "WARNING")>>)
       ELSE IF Contains("BGP", selected_scenario)
       THEN Returned(<<Alarm(target_device_id, "BGP Flapping", "WARNING")>>)
       ELSE Returned(<<>>)

\* A topology and a scenario label are chosen; neither generator has run.
InitGenerator ==
    /\ topology \in GeneratorTopologies
    /\ scenario \in [selected_scenario : ScenarioLabels,
                     generated : {Pending}, legacy : {Pending}]
    /\ root_cause_id = None
    /\ generated_alarms = <<>>
    /\ queue = <<>>
    /\ processed = {}
    /\ pc = "idle"
    /\ retry = <<>>
    /\ client = <<>>
    /\ SafetyIdle
    /\ AiIdle

\* app.py lines 124-126: _make_alarms with the extracted module available
GenerateAlarmsForScenario ==
    /\ scenario # <<>>
    /\ scenario.generated = Pending
    /\ scenario' = [scenario EXCEPT !.generated =
                       generate_alarms_for_scenario(topology, scenario.selected_scenario)]
    /\ UNCHANGED <<retry, client, cascadeVars, safetyVars, aiVars>>

\* app.py line 127: _make_alarms without it
MakeAlarmsLegacy ==
    /\ scenario # <<>>
    /\ scenario.legacy = Pending
    /\ scenario' = [scenario EXCEPT !.legacy =
                       _make_alarms_legacy(topology, scenario.selected_scenario)]
    /\ UNCHANGED <<retry, client, cascadeVars, safetyVars, aiVars>>

NextGenerator == GenerateAlarmsForScenario \/ MakeAlarmsLegacy

SpecGenerator == InitGenerator /\ [][NextGenerator]_vars

\* The scenario label of this state, and whether the extracted generator ran.
Label == scenario.selected_scenario

Generated == scenario # <<>> /\ scenario.generated # Pending

\* The label holds none of the keywords of lines 55-113, and no device tag
\* of lines 132-137 together with a fault keyword of lines 145-164.
MatchesNoCatalogEntry ==
    /\ \A k \in {Keyword.WAN_DOWN, Keyword.FW_HALF, Keyword.L2SW_SILENT, Keyword.COMPOUND, Keyword.SIMULTANEOUS} :
          ~Contains(k, Label)
    /\ ~(/\ \E tag \in {"[WAN]", "[FW]", "[L2SW]"} : Contains(tag, Label)
         /\ \E k \in {Keyword.PSU_SINGLE, Keyword.PSU_DUAL, "BGP", "FAN", Keyword.MEMORY} :
               Contains(k, Label))

\* Some node of the topology has this type.
HasNodeOfType(type) == \E i \in 1..Len(topology.nodes) : topology.nodes[i].type = type

\* C23: generate_alarms_for_scenario returns the empty list for every label
\* that holds the normal-operation keyword or "---", for every label that holds
\* "Live", and for every label that matches no catalog entry, whatever the
\* topology and whatever fault keyword the label also holds.
C23_NormalLiveUnknownEmpty ==
    (/\ Generated
     /\ \/ Contains("---", Label)
        \/ Contains(Keyword.NORMAL, Label)
        \/ Contains("Live", Label)
        \/ MatchesNoCatalogEntry)
    => scenario.generated = Returned(<<>>)

\* The generator answered the empty list for a label that holds "---" and the
\* keyword of the firewall scenario, on a topology that has a firewall.
C23_Witness ==
    /\ Generated
    /\ Contains("---", Label)
    /\ Contains(Keyword.FW_HALF, Label)
    /\ HasNodeOfType("FIREWALL")
    /\ scenario.generated = Returned(<<>>)

\* The label passes the checks of lines 43-48.
PassesNormalLiveCheck ==
    /\ ~Contains("---", Label)
    /\ ~Contains(Keyword.NORMAL, Label)
    /\ ~Contains("Live", Label)

\* The id of the first node of this type in the iteration order of the
\* topology; None when there is none.
FirstOfType(type) ==
    IF HasNodeOfType(type)
    THEN topology.nodes[CHOOSE i \in 1..Len(topology.nodes) :
                           /\ topology.nodes[i].type = type
                           /\ \A j \in 1..(i - 1) : topology.nodes[j].type # type].id
    ELSE None

\* What the claim says of the two scenarios, for a label that holds the keyword.
WanDownAsClaimed ==
    scenario.generated =
        IF HasNodeOfType("ROUTER")
        THEN simulate_cascade_failure(FirstOfType("ROUTER"), topology)
        ELSE Returned(<<>>)

FwHalfAsClaimed ==
    scenario.generated =
        IF HasNodeOfType("FIREWALL")
        THEN Returned(<<Alarm(FirstOfType("FIREWALL"), "Heartbeat Loss", "WARNING")>>)
        ELSE Returned(<<>>)

ReachesDeviceScenarios ==
    /\ PassesNormalLiveCheck
    /\ \A k \in {Keyword.WAN_DOWN, Keyword.FW_HALF, Keyword.L2SW_SILENT, Keyword.COMPOUND, Keyword.SIMULTANEOUS} :
          ~Contains(k, Label)

\* The device the tag of the label selects (lines 132-137).
TaggedTarget ==
    IF Contains("[WAN]", Label) THEN FirstOfType("ROUTER")
    ELSE IF Contains("[FW]", Label) THEN FirstOfType("FIREWALL")
    ELSE IF Contains("[L2SW]", Label) /\ \E i \in 1..Len(topology.nodes) :
                topology.nodes[i].type = "SWITCH" /\ topology.nodes[i].layer = 4
    THEN "L2_SW_01"
    ELSE None

\* C25: the dual-PSU-loss scenario on a router or an L2 switch returns a
\* cascade whose root alarm is CRITICAL 'Power Supply: Dual Loss (Device
\* Down)', the message passed to the cascade simulator, and whose other alarms
\* are 'Unreachable'.
C25_DualPsuCascade ==
    (/\ Generated
     /\ ReachesDeviceScenarios
     /\ Contains("[WAN]", Label) \/ Contains("[L2SW]", Label)
     /\ Contains(Keyword.PSU_DUAL, Label)
     /\ TaggedTarget # None)
    => /\ scenario.generated.kind = "returned"
       /\ LET value == scenario.generated.value
          IN /\ value # <<>>
             /\ value[1] = Alarm(TaggedTarget, "Power Supply: Dual Loss (Device Down)",
                                 "CRITICAL")
             /\ \A i \in 2..Len(value) : value[i].message = "Unreachable"

\* The same topology with its nodes in the other representation.
AsShape(shape) == [topology EXCEPT !.shape = shape]

\* C26: generate_alarms_for_scenario and simulate_cascade_failure return the
\* same alarms for the dict-shaped and the object-shaped representation of the
\* same topology, and neither representation makes them raise.
C26_SameForBothShapes ==
    Generated =>
        /\ scenario.generated.kind = "returned"
        /\ generate_alarms_for_scenario(AsShape("dict"), Label)
              = generate_alarms_for_scenario(AsShape("object"), Label)
        /\ \A i \in 1..Len(topology.nodes) :
              LET root == topology.nodes[i].id
              IN /\ simulate_cascade_failure(root, topology).kind = "returned"
                 /\ simulate_cascade_failure(root, AsShape("dict"))
                       = simulate_cascade_failure(root, AsShape("object"))

\* C27: for every topology and every scenario label the extracted generator
\* returns the same list of alarms, in the same order, as _make_alarms_legacy.
C27_SameAsLegacy ==
    (Generated /\ scenario.legacy # Pending) => scenario.generated = scenario.legacy

(***************************************************************************)
(* app.py lines 717-724: the alarms of a cascade handed to                 *)
(* LogicalRCA.analyze                                                      *)
(***************************************************************************)

\* The topology of the cascade as LogicalRCA reads it: device id -> node.
TopologyOfEngine(topo) ==
    [id \in {topo[i].id : i \in 1..Len(topo)} |->
        "parent_id" :> (CHOOSE p \in DeviceIds \cup {None} :
                           \E i \in 1..Len(topo) : topo[i].id = id /\ topo[i].parent_id = p)]

\* simulate_cascade_failure(r, T) is about to run, and LogicalRCA(T) has been
\* constructed.
InitCascadeAnalyze ==
    /\ topology \in Topologies
    /\ root_cause_id \in DeviceIds
    /\ generated_alarms = <<>>
    /\ queue = <<>>
    /\ processed = {}
    /\ pc = "start"
    /\ alarms = <<>>
    /\ rca \in [engine : {[model |-> None, _api_configured |-> FALSE]},
                env : Environments, topology : {TopologyOfEngine(topology)},
                returns : {<<>>}]
    /\ ai_calls = 0
    /\ ai_judgment_func = [kind |-> "None"]
    /\ device_metadata = <<>>
    /\ judgment = NoJudgment
    /\ baseline = NoJudgment
    /\ called = {}
    /\ ha_args = <<>>
    /\ HelperIdle

\* lines 717-718: engine.analyze(alarms) on the alarms the cascade returned
AnalyzeCascade ==
    /\ pc = "done"
    /\ rca # <<>>
    /\ \E responses \in [DelegatedDevices(rca.topology, rca.env, rca.engine,
                                          generated_alarms) -> AnalyzeResponses] :
         LET r == analyze(rca.topology, rca.env, rca.engine, generated_alarms, responses)
         IN /\ rca' = [rca EXCEPT !.engine = r.engine,
                                  !.returns = Append(@, [outcome |-> r.outcome,
                                                         responses |-> responses])]
            /\ ai_calls' = ai_calls + r.model_calls
    /\ alarms' = generated_alarms
    /\ called' = called \cup {"analyze"}
    /\ pc' = "analyzed"
    /\ UNCHANGED <<topology, root_cause_id, generated_alarms, queue, processed,
                   device_metadata, judgment, baseline, ha_args, ai_judgment_func,
                   helperVars>>

NextCascadeAnalyze == CascadeBegin \/ CascadeStep \/ CascadeReturn \/ AnalyzeCascade

SpecCascadeAnalyze == InitCascadeAnalyze /\ [][NextCascadeAnalyze]_vars

\* C28: analyze applied to the alarms of simulate_cascade_failure(r, T)
\* returns r as the first candidate and gives every descendant of r a
\* candidate of type Network/Unreachable with probability 0.2, below the
\* probability of r, whatever the model answered for r or failed to answer.
C28_CascadeSuppressed ==
    pc = "analyzed" =>
        /\ LastOutcome.kind = "returned"
        /\ LET value == LastOutcome.value
           IN /\ value[1].id = root_cause_id
              /\ \A k \in 2..Len(generated_alarms) :
                    \E i \in 1..Len(value) :
                       /\ value[i].id = generated_alarms[k].device_id
                       /\ value[i].type = PyStr("Network/Unreachable")
                       /\ value[i].prob = 2
                       /\ value[i].prob < value[1].prob

(***************************************************************************)
(* logic.py: CausalInferenceEngine                                         *)
(***************************************************************************)

\* data.NetworkNode, with the fields the engine reads
EngineNode(id, layer, parent_id, redundancy_group) ==
    [id |-> id, layer |-> layer, parent_id |-> parent_id,
     redundancy_group |-> redundancy_group]

\* lines 16-22
InferenceResult(root_cause_node, root_cause_reason, sop_key, related_alarms, severity) ==
    [root_cause_node |-> root_cause_node, root_cause_reason |-> root_cause_reason,
     sop_key |-> sop_key, related_alarms |-> related_alarms, severity |-> severity]

\* None where the code holds a node or a result
NoNode == [is_none |-> TRUE]

\* self.topology.get(device_id): the node, or None
TopologyGet(topo, device_id) ==
    IF \E i \in 1..Len(topo) : topo[i].id = device_id
    THEN topo[CHOOSE i \in 1..Len(topo) : topo[i].id = device_id]
    ELSE NoNode

\* line 34: the sort key of an alarm
LayerKey(topo, a) ==
    IF TopologyGet(topo, a.device_id) # NoNode
    THEN TopologyGet(topo, a.device_id).layer ELSE 999

\* lines 32-40: sorted(alarms, key=...)[0]; sorted is stable, so it is the
\* first alarm of the smallest key
TopAlarm(topo, alarm_list) ==
    alarm_list[CHOOSE i \in 1..Len(alarm_list) :
                  /\ \A j \in 1..Len(alarm_list) :
                        LayerKey(topo, alarm_list[i]) <= LayerKey(topo, alarm_list[j])
                  /\ \A j \in 1..(i - 1) :
                        LayerKey(topo, alarm_list[j]) > LayerKey(topo, alarm_list[i])]

\* alarm_map[device_id]: the last alarm of the device
AlarmMapGet(alarm_list, device_id) ==
    alarm_list[CHOOSE i \in 1..Len(alarm_list) :
                  /\ alarm_list[i].device_id = device_id
                  /\ \A j \in (i + 1)..Len(alarm_list) :
                        alarm_list[j].device_id # device_id]

\* some member of the group is down
AnyMemberDown(down_members, group_members) == Len(down_members) >= 1

\* line 73: len(down_members) == len(group_members)
AllMembersDown(down_members, group_members) == Len(down_members) = Len(group_members)

\* lines 63-88
_analyze_redundancy(topo, node, alarmed_ids, alarm_list) ==
    LET group_members == SelectSeq(topo,
                            LAMBDA n : n.redundancy_group = node.redundancy_group)
        down_members == SelectSeq(group_members, LAMBDA n : n.id \in alarmed_ids)
        details_str == join(", ", [i \in 1..Len(down_members) |->
                          down_members[i].id \o ": "
                             \o AlarmMapGet(alarm_list, down_members[i].id).message])
    IN IF AllMembersDown(down_members, group_members)
       THEN InferenceResult(node,
                "<U+5197><U+9577><U+6027><U+30EB><U+30FC><U+30EB>: HA<U+30B0><U+30EB><U+30FC><U+30D7> " \o node.redundancy_group \o " <U+5168><U+505C><U+6B62><U+3002><U+8A73><U+7D30>: [" \o details_str \o "]",
                "HA_TOTAL_FAILURE", alarm_list, "CRITICAL")
       ELSE InferenceResult(node,
                "<U+5197><U+9577><U+6027><U+30EB><U+30FC><U+30EB>: HA<U+30B0><U+30EB><U+30FC><U+30D7> " \o node.redundancy_group \o " <U+7247><U+7CFB><U+969C><U+5BB3> (<U+7A3C><U+50CD><U+7D99><U+7D9A>)<U+3002><U+691C><U+77E5><U+5185><U+5BB9>: [" \o details_str \o "]",
                "HA_PARTIAL_FAILURE", alarm_list, "WARNING")

\* lines 90-106: the result, or None
_check_silent_failure_for_parent(topo, parent_id, alarmed_ids) ==
    LET parent_node == TopologyGet(topo, parent_id)
        siblings == SelectSeq(topo, LAMBDA n : n.parent_id = parent_id)
        children_down == Cardinality({i \in 1..Len(siblings) :
                                         siblings[i].id \in alarmed_ids})
    IN IF parent_node = NoNode THEN NoJudgment
       ELSE IF Len(siblings) > 0 /\ children_down = Len(siblings)
       THEN InferenceResult(parent_node, "<U+30B5><U+30A4><U+30EC><U+30F3><U+30C8><U+969C><U+5BB3><U+63A8><U+8AD6>: <U+89AA><U+30C7><U+30D0><U+30A4><U+30B9> " \o parent_id \o " <U+306F><U+6C88><U+9ED9><U+3057><U+3066><U+3044><U+307E><U+3059><U+304C><U+3001><U+914D><U+4E0B><U+306E><U+5B50><U+30C7><U+30D0><U+30A4><U+30B9><U+304C><U+5168><U+6EC5><U+3057><U+3066><U+3044><U+307E><U+3059><U+3002>",
                            "SILENT_FAILURE", <<>>, "CRITICAL")
       ELSE NoJudgment

\* lines 28-61
analyze_alarms(topo, alarm_list) ==
    LET alarmed_device_ids == {alarm_list[i].device_id : i \in 1..Len(alarm_list)}
    IN IF alarm_list = <<>>
       THEN InferenceResult(NoNode, "<U+30A2><U+30E9><U+30FC><U+30E0><U+306A><U+3057>", "DEFAULT", <<>>, "INFO")
       ELSE LET top_alarm == TopAlarm(topo, alarm_list)
                top_node == TopologyGet(topo, top_alarm.device_id)
            IN IF top_node = NoNode
               THEN InferenceResult(NoNode, "<U+4E0D><U+660E><U+306A><U+30C7><U+30D0><U+30A4><U+30B9>", "DEFAULT", alarm_list, "UNKNOWN")
               ELSE IF top_node.redundancy_group \notin {None, ""}
               THEN _analyze_redundancy(topo, top_node, alarmed_device_ids, alarm_list)
               ELSE LET silent_res ==
                            IF top_node.parent_id \notin {None, ""}
                            THEN _check_silent_failure_for_parent(topo, top_node.parent_id,
                                                                  alarmed_device_ids)
                            ELSE NoJudgment
                    IN IF silent_res # NoJudgment THEN silent_res
                       ELSE InferenceResult(top_node,
                               "<U+968E><U+5C64><U+30EB><U+30FC><U+30EB>: <U+6700><U+4E0A><U+4F4D><U+30EC><U+30A4><U+30E4><U+30FC><U+306E><U+30C7><U+30D0><U+30A4><U+30B9> " \o top_node.id \o " <U+3067><U+30A2><U+30E9><U+30FC><U+30E0><U+691C><U+77E5> (" \o top_alarm.message \o ")",
                               "HIERARCHY_FAILURE", alarm_list, top_alarm.severity)

\* Topologies of two or three devices D1, D2, D3: every layer 1 or 2, so that a
\* parent may lie on, above or below the layer of its child; a parent_id is
\* None, D1 or D2; the one redundancy group "HA" has no, two or three members.
EngineTopologies ==
    LET ids == <<"D1", "D2", "D3">>
    IN UNION {{[i \in 1..n |-> EngineNode(ids[i], layer[i], parent[i],
                                  IF ids[i] \in group THEN "HA" ELSE None)] :
                  layer \in [1..n -> {1, 2}],
                  parent \in [1..n -> {None, "D1", "D2"}],
                  group \in {{}, {"D1", "D2"}, {"D2", "D3"}, {"D1", "D2", "D3"}}} :
              n \in 2..3}

\* Lists of alarms of the three devices; D3 is unknown to the topologies of two.
EngineAlarmLists ==
    UNION {[1..n -> {Alarm(id, "Connection Lost", severity) :
                        id \in {"D1", "D2", "D3"},
                        severity \in {"CRITICAL", "WARNING"}}] : n \in 0..MaxAlarms}

\* CausalInferenceEngine(topology) has been constructed.
InitEngine ==
    /\ topology \in EngineTopologies
    /\ alarms \in EngineAlarmLists
    /\ judgment = NoJudgment
    /\ root_cause_id = None
    /\ generated_alarms = <<>>
    /\ queue = <<>>
    /\ processed = {}
    /\ pc = "idle"
    /\ device_metadata = <<>>
    /\ baseline = NoJudgment
    /\ called = {}
    /\ ha_args = <<>>
    /\ AiIdle
    /\ HelperIdle

\* engine.analyze_alarms(alarms)
EngineAnalyzeAlarms ==
    /\ "analyze_alarms" \notin called
    /\ judgment' = analyze_alarms(topology, alarms)
    /\ called' = called \cup {"analyze_alarms"}
    /\ UNCHANGED <<alarms, device_metadata, baseline, ha_args, cascadeVars, aiVars,
                   helperVars>>

NextEngine == EngineAnalyzeAlarms

SpecEngine == InitEngine /\ [][NextEngine]_vars

\* analyze_alarms has returned `judgment`.
EngineDone == "analyze_alarms" \in called

AlarmedIds == {alarms[i].device_id : i \in 1..Len(alarms)}

\* C29: whenever analyze_alarms returns a SILENT_FAILURE result, the node it
\* names has no alarm of its own, has at least one child, and is the parent of
\* the alarmed device of the lowest layer.
C29_SilentNodeIsSilent ==
    (EngineDone /\ judgment.sop_key = "SILENT_FAILURE") =>
        LET node == judgment.root_cause_node
        IN /\ node.id \notin AlarmedIds
           /\ \E i \in 1..Len(topology) : topology[i].parent_id = node.id
           /\ \E i \in 1..Len(alarms) :
                 /\ \A j \in 1..Len(alarms) :
                       LayerKey(topology, alarms[i]) <= LayerKey(topology, alarms[j])
                 /\ TopologyGet(topology, alarms[i].device_id).parent_id = node.id

\* The node of the alarmed device of the lowest layer.
TopNode == TopologyGet(topology, TopAlarm(topology, alarms).device_id)

\* The members of the redundancy group of a node.
MembersOf(node) ==
    {topology[i].id : i \in {k \in 1..Len(topology) :
                                topology[k].redundancy_group = node.redundancy_group}}

\* C30: when the alarmed device of the lowest layer belongs to a redundancy
\* group, the result is CRITICAL (HA_TOTAL_FAILURE) if and only if every
\* member of the group has an alarm, and WARNING (HA_PARTIAL_FAILURE)
\* otherwise, whatever the severities of the alarms.
C30_HaSeverityByMembers ==
    (/\ EngineDone
     /\ alarms # <<>>
     /\ TopNode # NoNode
     /\ TopNode.redundancy_group # None)
    => IF MembersOf(TopNode) \subseteq AlarmedIds
       THEN judgment.severity = "CRITICAL" /\ judgment.sop_key = "HA_TOTAL_FAILURE"
       ELSE judgment.severity = "WARNING" /\ judgment.sop_key = "HA_PARTIAL_FAILURE"

\* A group of two of which one member has a CRITICAL alarm and the other
\* none: the result is the WARNING of a partial failure.
C30_Witness ==
    /\ EngineDone
    /\ alarms # <<>>
    /\ TopNode # NoNode
    /\ TopNode.redundancy_group # None
    /\ Cardinality(MembersOf(TopNode)) = 2
    /\ ~(MembersOf(TopNode) \subseteq AlarmedIds)
    /\ \A i \in 1..Len(alarms) : alarms[i].severity = "CRITICAL"
    /\ judgment.severity = "WARNING"

====
